---- MODULE Spec2Model ----
(***************************************************************************)
(* Model of the API test framework (framework.py, validators.py,           *)
(* parsers.py): the Environment Store and its substitution, the path       *)
(* resolver, the action binder and the run loop of APITestFramework.       *)
(*                                                                         *)
(* Text is a sequence of one-character strings.  A Python value is a       *)
(* tagged record; Python None stands for JSON null and for "absent".       *)
(***************************************************************************)
EXTENDS Integers, Sequences, FiniteSets, TLC

VARIABLES
    environment_vars,   \* the dict shared by RequestParser and Validator: name -> text
    cycle_results,      \* APITestFramework.cycle_results: full test name -> per-run results
    results,            \* APITestFramework.results: full test name -> aggregated record
    workbook,           \* the sheets of the Excel file, from the setup sheet on
    cycles,             \* APITestFramework.cycles
    pc,                 \* position of run_tests / which operation is exercised
    sheet_idx,          \* index of the sheet being run (1 = setup sheet)
    cycle,              \* cycle of the sheet being run
    row_idx,            \* rows of the sheet already executed in this cycle
    setup_success,      \* run_tests local
    sheet_has_failures, \* run_tests local
    console,            \* the sheet-level messages printed so far
    faults,             \* exceptions the request executor has raised so far
    log,                \* history: the calls of execute_test_case, in order
    last,               \* history: the last call of execute_test_case
    fin,                \* input of the operation exercised on its own
    fout                \* its output

vars == <<environment_vars, cycle_results, results, workbook, cycles, pc, sheet_idx,
          cycle, row_idx, setup_success, sheet_has_failures, console, faults, log,
          last, fin, fout>>

(***************************************************************************)
(* Characters and text                                                     *)
(***************************************************************************)
Lower == {"a","b","c","d","e","f","g","h","i","j","k","l","m",
          "n","o","p","q","r","s","t","u","v","w","x","y","z"}

Upper == {"A","B","C","D","E","F","G","H","I","J","K","L","M",
          "N","O","P","Q","R","S","T","U","V","W","X","Y","Z"}

Digit == {"0","1","2","3","4","5","6","7","8","9"}

\* the character class [a-zA-Z0-9_]
IdChar(c) == c \in Lower \cup Upper \cup Digit \cup {"_"}

\* the character class [a-zA-Z0-9_\[\].]
PathChar(c) == IdChar(c) \/ c \in {"[", "]", "."}

\* the character class \s, as far as the texts of the model go
Space(c) == c \in {" ", "\n", "\t", "\r", "\f"}

\* membership of a character in a named character class
InClass(cls, c) ==
    CASE cls = "id"    -> IdChar(c)
      [] cls = "path"  -> PathChar(c)
      [] cls = "space" -> Space(c)
      [] cls = "digit" -> c \in Digit

\* end of the longest run of characters of class cls that starts at i
\* (i - 1 when there is none): a greedy  [...]*  of the regular expressions
RunEnd(text, i, cls) ==
    LET stops == {j \in i..Len(text) : ~InClass(cls, text[j])}
    IN  IF stops = {} THEN (IF i <= Len(text) THEN Len(text) ELSE i - 1)
        ELSE (CHOOSE j \in stops : \A k \in stops : j <= k) - 1

\* concatenation of a sequence of texts
RECURSIVE Flatten(_)
Flatten(ss) == IF ss = <<>> THEN <<>> ELSE Head(ss) \o Flatten(Tail(ss))

(***************************************************************************)
(* Environment Store: substitution                                         *)
(***************************************************************************)
\* replace_var of replace_env_vars: the replacement of one match $name
replace_var_dropUnbound(var_name, env) ==
    IF var_name \in DOMAIN env THEN env[var_name] ELSE <<>>

replace_var_rescan(var_name, env) ==
    IF var_name \in DOMAIN env
    THEN LET v == env[var_name]
         IN  IF Len(v) >= 2 /\ v[1] = "$" /\ SubSeq(v, 2, Len(v)) \in DOMAIN env
             THEN env[SubSeq(v, 2, Len(v))] ELSE v
    ELSE <<"$">> \o var_name

replace_var(var_name, env) ==
    IF var_name \in DOMAIN env THEN env[var_name] ELSE <<"$">> \o var_name

\* re.sub(r'\$([a-zA-Z0-9_]+)', replace_var, text) from position i on: the
\* matches are found left to right, each as long as possible, and the text
\* between them is copied
RECURSIVE re_sub_env(_, _, _)
re_sub_env(text, i, env) ==
    LET starts == {j \in i..(Len(text) - 1) : text[j] = "$" /\ IdChar(text[j + 1])}
    IN  IF starts = {} THEN SubSeq(text, i, Len(text))
        ELSE LET m == CHOOSE j \in starts : \A k \in starts : j <= k
                 e == RunEnd(text, m + 1, "id")
             IN  SubSeq(text, i, m - 1)
                 \o replace_var(SubSeq(text, m + 1, e), env)
                 \o re_sub_env(text, e + 1, env)

\* RequestParser.replace_env_vars and Validator._replace_env_vars (the same
\* code twice); every caller passes str(...), so text is always a string
replace_env_vars(text, env) == re_sub_env(text, 1, env)

(***************************************************************************)
(* Text helpers: the library calls the code makes                          *)
(***************************************************************************)
\* str.split(sep) and re.split(r'[...]', text) for a set of one-character
\* separators: the pieces between the separators, empty pieces included
RECURSIVE Split(_, _)
Split(text, seps) ==
    IF \A i \in 1..Len(text) : text[i] \notin seps THEN <<text>>
    ELSE LET i == CHOOSE k \in 1..Len(text) :
                      text[k] \in seps /\ \A m \in 1..(k - 1) : text[m] \notin seps
         IN  <<SubSeq(text, 1, i - 1)>> \o Split(SubSeq(text, i + 1, Len(text)), seps)

\* str.strip()
RECURSIVE Strip(_)
Strip(text) ==
    IF text = <<>> THEN <<>>
    ELSE IF Space(text[1]) THEN Strip(Tail(text))
    ELSE IF Space(text[Len(text)]) THEN Strip(SubSeq(text, 1, Len(text) - 1))
    ELSE text

DigitSeq == <<"0","1","2","3","4","5","6","7","8","9">>

DigitVal(c) == (CHOOSE n \in 1..10 : DigitSeq[n] = c) - 1

\* int(text) for a text of decimal digits
RECURSIVE ParseInt(_)
ParseInt(text) ==
    IF text = <<>> THEN 0
    ELSE 10 * ParseInt(SubSeq(text, 1, Len(text) - 1)) + DigitVal(text[Len(text)])

\* str(n) for an integer n
RECURSIVE IntToText(_)
IntToText(n) ==
    IF n < 0 THEN <<"-">> \o IntToText(0 - n)
    ELSE IF n < 10 THEN <<DigitSeq[n + 1]>>
    ELSE IntToText(n \div 10) \o <<DigitSeq[(n % 10) + 1]>>

\* sep.join(parts)
RECURSIVE Join(_, _)
Join(parts, sep) ==
    IF parts = <<>> THEN <<>>
    ELSE IF Len(parts) = 1 THEN parts[1]
    ELSE parts[1] \o sep \o Join(Tail(parts), sep)

(***************************************************************************)
(* Python values: None, bool, int, str, list, dict (keys in insertion order)*)
(***************************************************************************)
None == [t |-> "null"]

PBool(b) == [t |-> "bool", b |-> b]

PNum(n) == [t |-> "num", n |-> n]

\* the int 10**309: it is above sys.float_info.max (about 1.8 * 10**308) and
\* above the integers of the model checker, so it is held as a value of its own
PHuge == [t |-> "huge"]

HugeText == <<"1">> \o [i \in 1..309 |-> "0"]

PStr(s) == [t |-> "str", s |-> s]

PList(e) == [t |-> "list", e |-> e]

\* kv is a sequence of <<key, value>> pairs with distinct keys
PDict(kv) == [t |-> "dict", kv |-> kv]

IsDict(v) == v.t = "dict"

IsList(v) == v.t = "list"

\* key in d
DictHas(d, key) == \E i \in 1..Len(d.kv) : d.kv[i][1] = key

\* d.get(key) for a key that d has
DictGet(d, key) == d.kv[CHOOSE i \in 1..Len(d.kv) : d.kv[i][1] = key][2]

\* d[key] = value
DictSet(d, key, value) ==
    IF DictHas(d, key)
    THEN PDict([i \in 1..Len(d.kv) |->
                   IF d.kv[i][1] = key THEN <<key, value>> ELSE d.kv[i]])
    ELSE PDict(Append(d.kv, <<key, value>>))

\* the text of a string literal of json.dumps(..., ensure_ascii=False)
JsonEscape(s) ==
    Flatten([i \in 1..Len(s) |->
                CASE s[i] = "\"" -> <<"\\", "\"">>
                  [] s[i] = "\\" -> <<"\\", "\\">>
                  [] s[i] = "\n" -> <<"\\", "n">>
                  [] OTHER       -> <<s[i]>>])

\* json.dumps(v, ensure_ascii=False) with the default separators
RECURSIVE json_dumps(_)
json_dumps(v) ==
    CASE v.t = "null" -> <<"n","u","l","l">>
      [] v.t = "bool" -> IF v.b THEN <<"t","r","u","e">> ELSE <<"f","a","l","s","e">>
      [] v.t = "num"  -> IntToText(v.n)
      [] v.t = "huge" -> HugeText
      [] v.t = "str"  -> <<"\"">> \o JsonEscape(v.s) \o <<"\"">>
      [] v.t = "list" ->
            <<"[">> \o Join([i \in 1..Len(v.e) |-> json_dumps(v.e[i])], <<",", " ">>) \o <<"]">>
      [] v.t = "dict" ->
            <<"{">> \o Join([i \in 1..Len(v.kv) |->
                               <<"\"">> \o JsonEscape(v.kv[i][1]) \o <<"\"", ":", " ">>
                               \o json_dumps(v.kv[i][2])], <<",", " ">>) \o <<"}">>

(***************************************************************************)
(* Path resolver: Validator._get_nested_value                              *)
(***************************************************************************)
\* re.match(r'([a-zA-Z0-9_]+)\[(\d+)\]$', segment): the end of group 1, or 0
\* when the segment does not match.  Neither "[" nor "]" is in the class
\* before it, so each greedy run is the longest one.
array_match(segment) ==
    LET n == RunEnd(segment, 1, "id")
        d == RunEnd(segment, n + 2, "digit")
    IN  IF /\ n >= 1
           /\ Len(segment) >= n + 3
           /\ segment[n + 1] = "["
           /\ d >= n + 2
           /\ d + 1 = Len(segment)
           /\ segment[d + 1] = "]"
        THEN n ELSE 0

\* str.isdigit() over the characters a path can hold
isdigit(segment) == segment # <<>> /\ \A i \in 1..Len(segment) : segment[i] \in Digit

LengthText == <<"l","e","n","g","t","h">>

segment_step_oneBased(current_value, segment) ==
    LET n == array_match(segment) IN
    IF n > 0
    THEN LET key_name == SubSeq(segment, 1, n)
             index == ParseInt(SubSeq(segment, n + 2, Len(segment) - 1))
         IN  IF IsDict(current_value) /\ DictHas(current_value, key_name)
             THEN LET list_obj == DictGet(current_value, key_name)
                  IN  IF IsList(list_obj)
                      THEN IF 1 <= index /\ index <= Len(list_obj.e)
                           THEN list_obj.e[index] ELSE None
                      ELSE None
             ELSE None
    ELSE IF isdigit(segment)
    THEN LET index == ParseInt(segment)
         IN  IF IsList(current_value)
             THEN IF 0 <= index /\ index < Len(current_value.e)
                  THEN current_value.e[index + 1] ELSE None
             ELSE None
    ELSE IF IsDict(current_value) /\ DictHas(current_value, segment)
         THEN DictGet(current_value, segment)
    ELSE IF IsList(current_value) /\ segment = LengthText
         THEN PNum(Len(current_value.e))
    ELSE None

segment_step_digitKey(current_value, segment) ==
    LET n == array_match(segment) IN
    IF n > 0
    THEN LET key_name == SubSeq(segment, 1, n)
             index == ParseInt(SubSeq(segment, n + 2, Len(segment) - 1))
         IN  IF IsDict(current_value) /\ DictHas(current_value, key_name)
             THEN LET list_obj == DictGet(current_value, key_name)
                  IN  IF IsList(list_obj)
                      THEN IF 0 <= index /\ index < Len(list_obj.e)
                           THEN list_obj.e[index + 1] ELSE None
                      ELSE None
             ELSE None
    ELSE IF isdigit(segment) /\ IsList(current_value)
    THEN LET index == ParseInt(segment)
         IN  IF 0 <= index /\ index < Len(current_value.e)
             THEN current_value.e[index + 1] ELSE None
    ELSE IF IsDict(current_value) /\ DictHas(current_value, segment)
         THEN DictGet(current_value, segment)
    ELSE IF IsList(current_value) /\ segment = LengthText
         THEN PNum(Len(current_value.e))
    ELSE None

\* one turn of the loop over the segments (lines 75-116) for a current value
\* that is not None; None is the code's "return None"
segment_step(current_value, segment) ==
    LET n == array_match(segment) IN
    IF n > 0
    THEN LET key_name == SubSeq(segment, 1, n)
             index == ParseInt(SubSeq(segment, n + 2, Len(segment) - 1))
         IN  IF IsDict(current_value) /\ DictHas(current_value, key_name)
             THEN LET list_obj == DictGet(current_value, key_name)
                  IN  IF IsList(list_obj)
                      THEN IF 0 <= index /\ index < Len(list_obj.e)
                           THEN list_obj.e[index + 1] ELSE None
                      ELSE None
             ELSE None
    ELSE IF isdigit(segment)
    THEN LET index == ParseInt(segment)
         IN  IF IsList(current_value)
             THEN IF 0 <= index /\ index < Len(current_value.e)
                  THEN current_value.e[index + 1] ELSE None
             ELSE None
    ELSE IF IsDict(current_value) /\ DictHas(current_value, segment)
         THEN DictGet(current_value, segment)
    ELSE IF IsList(current_value) /\ segment = LengthText
         THEN PNum(Len(current_value.e))
    ELSE None

\* the loop over the segments from segment k on
RECURSIVE walk_segments(_, _, _)
walk_segments(current_value, segments, k) ==
    IF k > Len(segments) THEN current_value
    ELSE IF current_value = None THEN None
    ELSE walk_segments(segment_step(current_value, segments[k]), segments, k + 1)

_get_nested_value(obj, path) ==
    IF path = <<>> THEN obj ELSE walk_segments(obj, Split(path, {"."}), 1)

(***************************************************************************)
(* Action binder: Validator.execute_action                                 *)
(***************************************************************************)
ResultDot == <<"r","e","s","u","l","t",".">>

\* a match of  \$([a-zA-Z0-9_]+)\s*=\s*result\.([a-zA-Z0-9_\[\].]+)  that
\* starts at position i of text: <<end of group 1, start of group 2, end of
\* group 2>>, or <<>> when there is none.  No character that ends a greedy
\* run can continue it, so backtracking finds nothing more.
action_match_at(text, i) ==
    LET n  == RunEnd(text, i + 1, "id")
        w1 == RunEnd(text, n + 1, "space")
        w2 == RunEnd(text, w1 + 2, "space")
        p  == RunEnd(text, w2 + 8, "path")
    IN  IF /\ text[i] = "$"
           /\ n >= i + 1
           /\ w1 + 1 <= Len(text)
           /\ text[w1 + 1] = "="
           /\ w2 + 7 <= Len(text)
           /\ SubSeq(text, w2 + 1, w2 + 7) = ResultDot
           /\ p >= w2 + 8
        THEN <<n, w2 + 8, p>> ELSE <<>>

\* pattern.search(single_action): the leftmost position with a match, 0 if none
action_search(text) ==
    IF \E i \in 1..Len(text) : action_match_at(text, i) # <<>>
    THEN CHOOSE i \in 1..Len(text) :
            /\ action_match_at(text, i) # <<>>
            /\ \A k \in 1..(i - 1) : action_match_at(text, k) = <<>>
    ELSE 0

\* the text bound for a value that is not None (lines 256-263); the branch
\* for None of the code sits under "if value is not None" and is never taken
value_str(value) ==
    CASE value.t \in {"dict", "list"} -> json_dumps(value)
      [] value.t = "bool" -> IF value.b THEN <<"t","r","u","e">> ELSE <<"f","a","l","s","e">>
      [] value.t = "null" -> <<"n","u","l","l">>
      [] value.t = "num"  -> IntToText(value.n)
      [] value.t = "str"  -> value.s

env_set_keepFirst(env, var_name, text) ==
    [k \in DOMAIN env \cup {var_name} |->
        IF k \in DOMAIN env THEN env[k] ELSE text]

\* self.environment_vars[var_name] = value_str
env_set(env, var_name, text) ==
    [k \in DOMAIN env \cup {var_name} |-> IF k = var_name THEN text ELSE env[k]]

\* the body of the loop (lines 247-268) for one statement
single_action_unbindNone(single_action, result, env) ==
    LET i == action_search(single_action) IN
    IF i = 0 THEN env
    ELSE LET m == action_match_at(single_action, i)
             var_name == SubSeq(single_action, i + 1, m[1])
             result_path == SubSeq(single_action, m[2], m[3])
             value == _get_nested_value(result, result_path)
         IN  IF value # None THEN env_set(env, var_name, value_str(value))
             ELSE [k \in DOMAIN env \ {var_name} |-> env[k]]

execute_single_action(single_action, result, env) ==
    LET i == action_search(single_action) IN
    IF i = 0 THEN env
    ELSE LET m == action_match_at(single_action, i)
             var_name == SubSeq(single_action, i + 1, m[1])
             result_path == SubSeq(single_action, m[2], m[3])
             value == _get_nested_value(result, result_path)
         IN  IF value # None THEN env_set(env, var_name, value_str(value)) ELSE env

\* actions = [act.strip() for act in re.split(r'[;\n]', str(action)) if act.strip()]
action_statements(action) ==
    LET parts == Split(action, {";", "\n"})
    IN  SelectSeq([i \in 1..Len(parts) |-> Strip(parts[i])], LAMBDA a : a # <<>>)

\* the loop over the statements, from statement k on
RECURSIVE run_actions(_, _, _, _)
run_actions(actions, k, result, env) ==
    IF k > Len(actions) THEN env
    ELSE run_actions(actions, k + 1, result, execute_single_action(actions[k], result, env))

\* Validator.execute_action for an action text ("not action" is the empty
\* text; the caller has excluded NaN); the value is the dict afterwards
execute_action(action, result, env) ==
    IF action = <<>> THEN env
    ELSE run_actions(action_statements(action), 1, result, env)

(***************************************************************************)
(* The predicates of Validator.evaluate_condition                          *)
(***************************************************************************)
\* repr(s) of a str: single quotes, unless s holds a single and no double quote
py_repr_str(s) ==
    LET q == IF (\E i \in 1..Len(s) : s[i] = "'") /\ ~(\E i \in 1..Len(s) : s[i] = "\"")
             THEN "\"" ELSE "'"
    IN  <<q>> \o Flatten([i \in 1..Len(s) |->
                    CASE s[i] = "\\" -> <<"\\", "\\">>
                      [] s[i] = q    -> <<"\\", q>>
                      [] s[i] = "\n" -> <<"\\", "n">>
                      [] s[i] = "\t" -> <<"\\", "t">>
                      [] s[i] = "\r" -> <<"\\", "r">>
                      [] s[i] = "\f" -> <<"\\", "x", "0", "c">>
                      [] OTHER       -> <<s[i]>>]) \o <<q>>

\* repr(v)
RECURSIVE py_repr(_)
py_repr(v) ==
    CASE v.t = "null" -> <<"N","o","n","e">>
      [] v.t = "bool" -> IF v.b THEN <<"T","r","u","e">> ELSE <<"F","a","l","s","e">>
      [] v.t = "num"  -> IntToText(v.n)
      [] v.t = "huge" -> HugeText
      [] v.t = "str"  -> py_repr_str(v.s)
      [] v.t = "list" ->
            <<"[">> \o Join([i \in 1..Len(v.e) |-> py_repr(v.e[i])], <<",", " ">>) \o <<"]">>
      [] v.t = "dict" ->
            <<"{">> \o Join([i \in 1..Len(v.kv) |->
                               py_repr_str(v.kv[i][1]) \o <<":", " ">> \o py_repr(v.kv[i][2])],
                            <<",", " ">>) \o <<"}">>

\* str(v)
py_str(v) == IF v.t = "str" THEN v.s ELSE py_repr(v)

\* needle in hay, for two texts
IsSubstring(needle, hay) ==
    \E i \in 0..(Len(hay) - Len(needle)) : SubSeq(hay, i + 1, i + Len(needle)) = needle

\* contains(data, value), lines 127-133
contains(data, value) ==
    LET data_str == IF data # None THEN py_str(data) ELSE <<>>
        val_str == IF value # None THEN py_str(value) ELSE <<>>
    IN  IsSubstring(val_str, data_str)

\* the number a bool or an int is in a comparison
NumOf(v) == IF v.t = "bool" THEN (IF v.b THEN 1 ELSE 0) ELSE v.n

\* a == b
RECURSIVE py_eq(_, _)
py_eq(a, b) ==
    CASE a.t \in {"bool", "num"} /\ b.t \in {"bool", "num"} -> NumOf(a) = NumOf(b)
      [] a.t = "list" /\ b.t = "list" ->
            /\ Len(a.e) = Len(b.e)
            /\ \A i \in 1..Len(a.e) : py_eq(a.e[i], b.e[i])
      [] a.t = "dict" /\ b.t = "dict" ->
            /\ Len(a.kv) = Len(b.kv)
            /\ \A i \in 1..Len(a.kv) :
                  /\ DictHas(b, a.kv[i][1])
                  /\ py_eq(a.kv[i][2], DictGet(b, a.kv[i][1]))
      [] OTHER -> a.t = b.t /\ a = b

\* equal(data, value), lines 135-141
equal(data, value) == py_eq(data, value)

\* float(text) for a text of digits, signs, blanks and letters that spell
\* neither inf nor nan: blanks around are dropped, one sign may lead, the
\* rest must be decimal digits
float_of_text(text) ==
    LET stripped == Strip(text)
        signed == stripped # <<>> /\ stripped[1] \in {"+", "-"}
        digits == IF signed THEN Tail(stripped) ELSE stripped
    IN  IF digits # <<>> /\ \A i \in 1..Len(digits) : digits[i] \in Digit
        THEN [err |-> "", f |-> IF signed /\ stripped[1] = "-"
                                THEN 0 - ParseInt(digits) ELSE ParseInt(digits)]
        ELSE [err |-> "ValueError"]

\* float(value): the number, or the exception that float raises
float_of(value) ==
    CASE value.t \in {"bool", "num"} -> [err |-> "", f |-> NumOf(value)]
      [] value.t = "huge" -> [err |-> "OverflowError"]
      [] value.t = "str"  -> float_of_text(value.s)
      [] OTHER            -> [err |-> "TypeError"]

\* what a call of a function comes to: a value, or an exception
Ok(v) == [exc |-> "", v |-> v]

Raise(e) == [exc |-> e]

\* is_numeric(value), lines 143-148: only ValueError and TypeError are caught
is_numeric(value) ==
    LET f == float_of(value)
    IN  IF f.err = "" THEN Ok(TRUE)
        ELSE IF f.err \in {"ValueError", "TypeError"} THEN Ok(FALSE)
        ELSE Raise(f.err)

\* greater_than(data, value), lines 150-160
greater_than(data, value) ==
    LET nd == is_numeric(data) IN
    IF nd.exc # "" THEN nd
    ELSE IF ~nd.v THEN Ok(FALSE)
    ELSE LET nv == is_numeric(value) IN
         IF nv.exc # "" THEN nv
         ELSE IF ~nv.v THEN Ok(FALSE)
         ELSE Ok(float_of(data).f > float_of(value).f)

\* less_than(data, value), lines 162-172
less_than(data, value) ==
    LET nd == is_numeric(data) IN
    IF nd.exc # "" THEN nd
    ELSE IF ~nd.v THEN Ok(FALSE)
    ELSE LET nv == is_numeric(value) IN
         IF nv.exc # "" THEN nv
         ELSE IF ~nv.v THEN Ok(FALSE)
         ELSE Ok(float_of(data).f < float_of(value).f)

(***************************************************************************)
(* Validator.evaluate_condition: the references to the result              *)
(***************************************************************************)
\* lines 185-194: the text that stands for the value of a reference
result_ref_text(value) ==
    CASE value.t \in {"dict", "list"} -> json_dumps(value)
      [] value.t = "str"  -> py_repr_str(value.s)
      [] value.t = "null" -> <<"N","o","n","e">>
      [] value.t = "bool" -> IF value.b THEN <<"T","r","u","e">>
                             ELSE <<"F","a","l","s","e">>
      [] OTHER            -> py_repr(value)

replace_result_ref_noneAsEmpty(path, result) ==
    LET value == _get_nested_value(result, path)
    IN  CASE value.t \in {"dict", "list"} -> json_dumps(value)
          [] value.t = "str"  -> py_repr_str(value.s)
          [] value.t = "null" -> <<"'","'">>
          [] value.t = "bool" -> IF value.b THEN <<"T","r","u","e">>
                                 ELSE <<"F","a","l","s","e">>
          [] OTHER            -> py_repr(value)

\* replace_result_ref (lines 181-194) for the path of a match
replace_result_ref(path, result) == result_ref_text(_get_nested_value(result, path))

\* a match of r'result\.([a-zA-Z0-9_\[\].]+)' starts at position i
result_ref_at(text, i) ==
    /\ i + 7 <= Len(text)
    /\ SubSeq(text, i, i + 6) = ResultDot
    /\ PathChar(text[i + 7])

\* re.sub(r'result\.([a-zA-Z0-9_\[\].]+)', replace_result_ref, condition)
\* from position i on: the matches are taken from left to right, each with
\* the longest run of the class, the text between them is copied, and what
\* replaces a match is not scanned again
RECURSIVE re_sub_result(_, _, _)
re_sub_result(text, i, result) ==
    LET starts == {j \in i..Len(text) : result_ref_at(text, j)}
    IN  IF starts = {} THEN SubSeq(text, i, Len(text))
        ELSE LET m == CHOOSE j \in starts : \A k \in starts : j <= k
                 e == RunEnd(text, m + 7, "path")
             IN  SubSeq(text, i, m - 1)
                 \o replace_result_ref(SubSeq(text, m + 7, e), result)
                 \o re_sub_result(text, e + 1, result)

(***************************************************************************)
(* eval(eval_condition, {"__builtins__": {}}, context): the tokens         *)
(*                                                                         *)
(* The part of Python that the condition texts of the model are written    *)
(* in: names, decimal integers, quoted strings, calls, ==, and, or, not,   *)
(* parentheses, list and dict displays and the method upper of a str.      *)
(* A text that leaves this part comes to the outcome Unsupported, which is *)
(* no outcome of Python: the texts of the model never reach it.            *)
(***************************************************************************)
Unsupported == "Unsupported"

SyntaxError == "SyntaxError"

PyKeywords ==
    {<<"a","n","d">>, <<"o","r">>, <<"n","o","t">>, <<"i","f">>, <<"e","l","s","e">>,
     <<"i","n">>, <<"i","s">>, <<"f","o","r">>, <<"l","a","m","b","d","a">>,
     <<"a","w","a","i","t">>, <<"y","i","e","l","d">>, <<"a","s">>, <<"d","e","f">>,
     <<"d","e","l">>, <<"t","r","y">>, <<"w","i","t","h">>, <<"f","r","o","m">>,
     <<"p","a","s","s">>, <<"e","l","i","f">>, <<"c","l","a","s","s">>,
     <<"w","h","i","l","e">>, <<"r","a","i","s","e">>, <<"b","r","e","a","k">>,
     <<"a","s","y","n","c">>, <<"r","e","t","u","r","n">>, <<"i","m","p","o","r","t">>,
     <<"g","l","o","b","a","l">>, <<"a","s","s","e","r","t">>, <<"e","x","c","e","p","t">>,
     <<"f","i","n","a","l","l","y">>, <<"c","o","n","t","i","n","u","e">>,
     <<"n","o","n","l","o","c","a","l">>}

\* the letters of the prefixes of string literals (r, b, u, f, t, rb, ...)
StringPrefixChars == {"r", "R", "b", "B", "u", "U", "f", "F", "t", "T"}

\* the keywords that an expression can start with, besides not
PrefixKeywords == {<<"l","a","m","b","d","a">>, <<"a","w","a","i","t">>, <<"y","i","e","l","d">>}

\* the closing quote of a string literal whose body starts at i, 0 if the
\* literal does not end on its line
RECURSIVE StrBodyEnd(_, _, _)
StrBodyEnd(text, i, q) ==
    IF i > Len(text) THEN 0
    ELSE IF text[i] = "\n" THEN 0
    ELSE IF text[i] = "\\" THEN StrBodyEnd(text, i + 2, q)
    ELSE IF text[i] = q THEN i
    ELSE StrBodyEnd(text, i + 1, q)

\* the characters that the escapes \n \t \r \f \\ \' \" stand for
EscapeOf(c) ==
    CASE c = "n" -> "\n" [] c = "t" -> "\t" [] c = "r" -> "\r" [] c = "f" -> "\f"
      [] OTHER -> c

\* the str a string literal with this body stands for
RECURSIVE DecodeStr(_, _, _)
DecodeStr(body, i, acc) ==
    IF i > Len(body) THEN [err |-> "", s |-> acc]
    ELSE IF body[i] # "\\" THEN DecodeStr(body, i + 1, Append(acc, body[i]))
    ELSE IF i + 1 <= Len(body) /\ body[i + 1] \in {"n", "t", "r", "f", "\\", "'", "\""}
         THEN DecodeStr(body, i + 2, Append(acc, EscapeOf(body[i + 1])))
    ELSE [err |-> Unsupported]

\* a token, or a run of blanks, that starts at position i: its end and what
\* it is
Token(tok, e) == [err |-> "", tok |-> tok, e |-> e]

number_token(text, i) ==
    LET e == RunEnd(text, i, "digit")
        digits == SubSeq(text, i, e)
    IN  IF e < Len(text) /\ (IdChar(text[e + 1]) \/ text[e + 1] = ".")
        THEN [err |-> Unsupported]
        ELSE IF Len(digits) > 1 /\ digits[1] = "0"
        THEN IF \A k \in 1..Len(digits) : digits[k] = "0"
             THEN Token([k |-> "num", n |-> 0], e)
             ELSE [err |-> SyntaxError]
        ELSE IF digits = HugeText THEN Token([k |-> "huge"], e)
        ELSE IF Len(digits) > 9 THEN [err |-> Unsupported]
        ELSE Token([k |-> "num", n |-> ParseInt(digits)], e)

name_token(text, i) ==
    LET e == RunEnd(text, i, "id")
    IN  IF /\ e < Len(text) /\ text[e + 1] \in {"'", "\""}
           /\ e - i < 2
           /\ \A k \in i..e : text[k] \in StringPrefixChars
        THEN [err |-> Unsupported]
        ELSE Token([k |-> "name", s |-> SubSeq(text, i, e)], e)

string_token(text, i) ==
    LET e == StrBodyEnd(text, i + 1, text[i])
    IN  IF e = 0 \/ e > Len(text) THEN [err |-> SyntaxError]
        ELSE IF e = i + 1 /\ e < Len(text) /\ text[e + 1] = text[i]
        THEN [err |-> Unsupported]
        ELSE LET d == DecodeStr(SubSeq(text, i + 1, e - 1), 1, <<>>)
             IN  IF d.err # "" THEN [err |-> d.err]
                 ELSE Token([k |-> "str", s |-> d.s], e)

next_token(text, i) ==
    LET c == text[i]
    IN  CASE c \in {" ", "\t"} -> Token([k |-> "blank"], i)
          [] c \in Digit       -> number_token(text, i)
          [] IdChar(c) /\ c \notin Digit -> name_token(text, i)
          [] c \in {"'", "\""} -> string_token(text, i)
          [] c = "=" ->
                IF i < Len(text) /\ text[i + 1] = "="
                THEN Token([k |-> "op", s |-> "=="], i + 1)
                ELSE [err |-> Unsupported]
          [] c \in {"(", ")", ",", "[", "]", "{", "}", ":", "."} ->
                Token([k |-> "op", s |-> c], i)
          [] c = "$" -> [err |-> SyntaxError]
          [] OTHER -> [err |-> Unsupported]

\* the tokens of the text from position i on, after the tokens acc
RECURSIVE Tokenize(_, _, _)
RECURSIVE tokens_after(_, _, _)
Tokenize(text, i, acc) ==
    IF i > Len(text) THEN [err |-> "", toks |-> acc]
    ELSE tokens_after(text, acc, next_token(text, i))

\* the tokens after acc and the token, or the run of blanks, t
tokens_after(text, acc, t) ==
    IF t.err # "" THEN [err |-> t.err]
    ELSE Tokenize(text, t.e + 1, IF t.tok.k = "blank" THEN acc ELSE Append(acc, t.tok))

(***************************************************************************)
(* eval: the expression of the tokens                                      *)
(*                                                                         *)
(* A parse is [err, node, p]: the expression read and the position of the  *)
(* token after it.  The levels are those of the grammar of Python:         *)
(* or_test, and_test, not_test, comparison, primary with its trailers,     *)
(* atom.                                                                   *)
(***************************************************************************)
IsOp(toks, p, s) == p <= Len(toks) /\ toks[p].k = "op" /\ toks[p].s = s

IsKw(toks, p, word) == p <= Len(toks) /\ toks[p].k = "name" /\ toks[p].s = word

ParseErr(e) == [err |-> e]

Parsed(node, p) == [err |-> "", node |-> node, p |-> p]

\* what follows an expression that nothing closes or continues
Leftover(toks, p) ==
    IF p > Len(toks) THEN ParseErr(SyntaxError)
    ELSE IF \/ toks[p].k \in {"num", "huge", "str"}
            \/ toks[p].k = "name" /\ toks[p].s \notin PyKeywords
            \/ toks[p].k = "op" /\ toks[p].s \in {")", "]", "}"}
         THEN ParseErr(SyntaxError)
         ELSE ParseErr(Unsupported)

RECURSIVE parse_or(_, _)
RECURSIVE parse_or_rest(_, _)
RECURSIVE or_of(_, _, _)
RECURSIVE parse_and(_, _)
RECURSIVE parse_and_rest(_, _)
RECURSIVE and_of(_, _, _)
RECURSIVE parse_not(_, _)
RECURSIVE parse_comparison(_, _)
RECURSIVE comparison_after(_, _)
RECURSIVE parse_primary(_, _)
RECURSIVE parse_trailers(_, _)
RECURSIVE call_of(_, _, _)
RECURSIVE parse_args(_, _, _, _)
RECURSIVE args_after(_, _, _, _)
RECURSIVE parse_items(_, _, _)
RECURSIVE items_after_key(_, _, _)
RECURSIVE items_after_value(_, _, _, _)
RECURSIVE parse_atom(_, _)

\* the expressions of a call or of a list display up to the closer, after
\* the expressions acc; args_after: after the expression r as well
args_after(toks, closer, acc, r) ==
    IF r.err # "" THEN r
    ELSE IF IsOp(toks, r.p, closer)
    THEN [err |-> "", args |-> Append(acc, r.node), p |-> r.p + 1]
    ELSE IF IsOp(toks, r.p, ",")
    THEN IF IsOp(toks, r.p + 1, closer) THEN ParseErr(Unsupported)
         ELSE parse_args(toks, r.p + 1, closer, Append(acc, r.node))
    ELSE Leftover(toks, r.p)

parse_args(toks, p, closer, acc) ==
    IF IsOp(toks, p, closer) /\ acc = <<>> THEN [err |-> "", args |-> acc, p |-> p + 1]
    ELSE args_after(toks, closer, acc, parse_or(toks, p))

\* the key: value items of a dict display up to the brace, after acc;
\* items_after_key: after the key as well, items_after_value: and its value
items_after_value(toks, acc, key, r) ==
    IF r.err # "" THEN r
    ELSE IF IsOp(toks, r.p, "}")
    THEN [err |-> "", args |-> Append(acc, <<key.node, r.node>>), p |-> r.p + 1]
    ELSE IF IsOp(toks, r.p, ",")
    THEN IF IsOp(toks, r.p + 1, "}") THEN ParseErr(Unsupported)
         ELSE parse_items(toks, r.p + 1, Append(acc, <<key.node, r.node>>))
    ELSE Leftover(toks, r.p)

items_after_key(toks, acc, key) ==
    IF key.err # "" THEN key
    ELSE IF ~IsOp(toks, key.p, ":")
    THEN IF key.p > Len(toks) THEN ParseErr(SyntaxError) ELSE ParseErr(Unsupported)
    ELSE items_after_value(toks, acc, key, parse_or(toks, key.p + 1))

parse_items(toks, p, acc) ==
    IF IsOp(toks, p, "}") /\ acc = <<>> THEN [err |-> "", args |-> acc, p |-> p + 1]
    ELSE items_after_key(toks, acc, parse_or(toks, p))

\* the expression r in parentheses
parenthesized(toks, r) ==
    IF r.err # "" THEN r
    ELSE IF IsOp(toks, r.p, ")") THEN Parsed(r.node, r.p + 1)
    ELSE IF r.p > Len(toks) THEN ParseErr(SyntaxError)
    ELSE ParseErr(Unsupported)

\* the list display of the expressions r, the dict display of the items r
list_display(r) ==
    IF r.err # "" THEN r ELSE Parsed([k |-> "list", e |-> r.args], r.p)

dict_display(r) ==
    IF r.err # "" THEN r ELSE Parsed([k |-> "dict", kv |-> r.args], r.p)

parse_atom(toks, p) ==
    IF p > Len(toks) THEN ParseErr(SyntaxError)
    ELSE LET tok == toks[p] IN
         CASE tok.k = "num"  -> Parsed([k |-> "const", v |-> PNum(tok.n)], p + 1)
           [] tok.k = "huge" -> Parsed([k |-> "const", v |-> PHuge], p + 1)
           [] tok.k = "str"  ->
                 IF p + 1 <= Len(toks) /\ toks[p + 1].k = "str" THEN ParseErr(Unsupported)
                 ELSE Parsed([k |-> "const", v |-> PStr(tok.s)], p + 1)
           [] tok.k = "name" ->
                 CASE tok.s = <<"N","o","n","e">> -> Parsed([k |-> "const", v |-> None], p + 1)
                   [] tok.s = <<"T","r","u","e">> ->
                         Parsed([k |-> "const", v |-> PBool(TRUE)], p + 1)
                   [] tok.s = <<"F","a","l","s","e">> ->
                         Parsed([k |-> "const", v |-> PBool(FALSE)], p + 1)
                   [] tok.s \in PrefixKeywords -> ParseErr(Unsupported)
                   [] tok.s \in PyKeywords -> ParseErr(SyntaxError)
                   [] OTHER -> Parsed([k |-> "name", s |-> tok.s], p + 1)
           [] tok.k = "op" ->
                 CASE tok.s = "(" ->
                         IF IsOp(toks, p + 1, ")") THEN ParseErr(Unsupported)
                         ELSE parenthesized(toks, parse_or(toks, p + 1))
                   [] tok.s = "[" -> list_display(parse_args(toks, p + 1, "]", <<>>))
                   [] tok.s = "{" -> dict_display(parse_items(toks, p + 1, <<>>))
                   [] tok.s \in {")", "]", "}", ",", "=="} -> ParseErr(SyntaxError)
                   [] OTHER -> ParseErr(Unsupported)

\* the calls and attribute references that follow the primary l; call_of:
\* the call of l with the arguments r, and what follows it
call_of(toks, l, r) ==
    IF r.err # "" THEN r
    ELSE parse_trailers(toks, Parsed([k |-> "call", f |-> l.node, args |-> r.args], r.p))

parse_trailers(toks, l) ==
    IF l.err # "" THEN l
    ELSE IF IsOp(toks, l.p, "(")
    THEN call_of(toks, l, parse_args(toks, l.p + 1, ")", <<>>))
    ELSE IF IsOp(toks, l.p, ".")
    THEN IF IsKw(toks, l.p + 1, <<"u","p","p","e","r">>)
         THEN parse_trailers(toks, Parsed([k |-> "attr", a |-> l.node], l.p + 2))
         ELSE IF l.p + 1 <= Len(toks) /\ toks[l.p + 1].k = "name" THEN ParseErr(Unsupported)
         ELSE ParseErr(SyntaxError)
    ELSE IF IsOp(toks, l.p, "[") THEN ParseErr(Unsupported)
    ELSE l

parse_primary(toks, p) == parse_trailers(toks, parse_atom(toks, p))

\* l == r, for the two primaries read
comparison_of(toks, l, r) ==
    IF r.err # "" THEN r
    ELSE IF IsOp(toks, r.p, "==") THEN ParseErr(Unsupported)
    ELSE Parsed([k |-> "eq", l |-> l.node, r |-> r.node], r.p)

\* the primary l and the == that may follow it
comparison_after(toks, l) ==
    IF l.err # "" THEN l
    ELSE IF ~IsOp(toks, l.p, "==") THEN l
    ELSE comparison_of(toks, l, parse_primary(toks, l.p + 1))

parse_comparison(toks, p) == comparison_after(toks, parse_primary(toks, p))

\* not r
not_of(r) ==
    IF r.err # "" THEN r ELSE Parsed([k |-> "not", a |-> r.node], r.p)

parse_not(toks, p) ==
    IF IsKw(toks, p, <<"n","o","t">>) THEN not_of(parse_not(toks, p + 1))
    ELSE parse_comparison(toks, p)

\* l and r, and what follows it
and_of(toks, l, r) ==
    IF r.err # "" THEN r
    ELSE parse_and_rest(toks, Parsed([k |-> "and", l |-> l.node, r |-> r.node], r.p))

parse_and_rest(toks, l) ==
    IF l.err # "" THEN l
    ELSE IF IsKw(toks, l.p, <<"a","n","d">>) THEN and_of(toks, l, parse_not(toks, l.p + 1))
    ELSE l

parse_and(toks, p) == parse_and_rest(toks, parse_not(toks, p))

\* l or r, and what follows it
or_of(toks, l, r) ==
    IF r.err # "" THEN r
    ELSE parse_or_rest(toks, Parsed([k |-> "or", l |-> l.node, r |-> r.node], r.p))

parse_or_rest(toks, l) ==
    IF l.err # "" THEN l
    ELSE IF IsKw(toks, l.p, <<"o","r">>) THEN or_of(toks, l, parse_and(toks, l.p + 1))
    ELSE l

parse_or(toks, p) == parse_or_rest(toks, parse_and(toks, p))

\* the expression r that the tokens are, if no token is left over
whole_expression(toks, r) ==
    IF r.err # "" THEN r
    ELSE IF r.p <= Len(toks) THEN Leftover(toks, r.p)
    ELSE r

\* the expression that the tokens t are
expression_of(t) ==
    IF t.err # "" THEN ParseErr(t.err) ELSE whole_expression(t.toks, parse_or(t.toks, 1))

\* the expression that the whole text is
parse_expression(text) == expression_of(Tokenize(text, 1, <<>>))

(***************************************************************************)
(* eval: the value of the expression in the context of lines 197-206       *)
(***************************************************************************)
ContextFunctions ==
    {<<"c","o","n","t","a","i","n","s">>, <<"e","q","u","a","l">>,
     <<"g","r","e","a","t","T","h","a","n">>, <<"l","e","s","s","T","h","a","n">>}

PFunc(name) == [t |-> "func", name |-> name]

PMethod(self) == [t |-> "method", name |-> "upper", self |-> self]

\* bool(value)
py_bool(v) ==
    CASE v.t = "null" -> FALSE
      [] v.t = "bool" -> v.b
      [] v.t = "num"  -> v.n # 0
      [] v.t = "str"  -> v.s # <<>>
      [] v.t = "list" -> v.e # <<>>
      [] v.t = "dict" -> v.kv # <<>>
      [] OTHER        -> TRUE

LowerSeq == <<"a","b","c","d","e","f","g","h","i","j","k","l","m",
              "n","o","p","q","r","s","t","u","v","w","x","y","z">>

UpperSeq == <<"A","B","C","D","E","F","G","H","I","J","K","L","M",
              "N","O","P","Q","R","S","T","U","V","W","X","Y","Z">>

\* str.upper
str_upper(s) ==
    [i \in 1..Len(s) |->
        IF s[i] \in Lower THEN UpperSeq[CHOOSE n \in 1..26 : LowerSeq[n] = s[i]] ELSE s[i]]

\* the bool that a function returns, as a value of Python
returned(r) == IF r.exc # "" THEN r ELSE Ok(PBool(r.v))

\* a call of one of the four functions of the context
call_function(name, args) ==
    IF Len(args) # 2 THEN Raise("TypeError")
    ELSE CASE name = <<"c","o","n","t","a","i","n","s">> -> Ok(PBool(contains(args[1], args[2])))
           [] name = <<"e","q","u","a","l">> -> Ok(PBool(equal(args[1], args[2])))
           [] name = <<"g","r","e","a","t","T","h","a","n">> ->
                 returned(greater_than(args[1], args[2]))
           [] name = <<"l","e","s","s","T","h","a","n">> ->
                 returned(less_than(args[1], args[2]))

RECURSIVE eval_node(_)
RECURSIVE eval_nodes(_, _, _)
RECURSIVE nodes_after(_, _, _, _)
RECURSIVE eval_items(_, _, _)
RECURSIVE items_of_key(_, _, _, _)
RECURSIVE item_set(_, _, _, _, _)
RECURSIVE and_value(_, _)
RECURSIVE or_value(_, _)
RECURSIVE eq_after(_, _)
RECURSIVE call_after(_, _)

\* the values of the expressions from the i-th on, after the values acc;
\* nodes_after: r is the outcome of the i-th
nodes_after(nodes, i, acc, r) ==
    IF r.exc # "" THEN r ELSE eval_nodes(nodes, i + 1, Append(acc, r.v))

eval_nodes(nodes, i, acc) ==
    IF i > Len(nodes) THEN Ok(acc) ELSE nodes_after(nodes, i, acc, eval_node(nodes[i]))

\* the dict of the items from the i-th on, after the dict acc; items_of_key
\* and item_set: key and r are the outcomes of the key and the value of the
\* i-th
item_set(items, i, acc, key, r) ==
    IF r.exc # "" THEN r
    ELSE IF key.v.t # "str" THEN Raise(Unsupported)
    ELSE eval_items(items, i + 1, DictSet(acc, key.v.s, r.v))

items_of_key(items, i, acc, key) ==
    IF key.exc # "" THEN key ELSE item_set(items, i, acc, key, eval_node(items[i][2]))

eval_items(items, i, acc) ==
    IF i > Len(items) THEN Ok(acc)
    ELSE items_of_key(items, i, acc, eval_node(items[i][1]))

\* not a
not_value(a) ==
    IF a.exc # "" THEN a ELSE Ok(PBool(~py_bool(a.v)))

\* l and node.r, l or node.r: the right side is evaluated only if it decides
and_value(node, l) ==
    IF l.exc # "" THEN l
    ELSE IF ~py_bool(l.v) THEN l ELSE eval_node(node.r)

or_value(node, l) ==
    IF l.exc # "" THEN l
    ELSE IF py_bool(l.v) THEN l ELSE eval_node(node.r)

\* l == r
eq_value(l, r) ==
    IF r.exc # "" THEN r ELSE Ok(PBool(py_eq(l.v, r.v)))

eq_after(node, l) ==
    IF l.exc # "" THEN l ELSE eq_value(l, eval_node(node.r))

\* the list of the values r
list_value(r) ==
    IF r.exc # "" THEN r ELSE Ok(PList(r.v))

\* a.upper
attr_value(a) ==
    IF a.exc # "" THEN a
    ELSE IF a.v.t = "str" THEN Ok(PMethod(a.v))
    ELSE IF a.v.t = "method" THEN Raise(Unsupported)
    ELSE Raise("AttributeError")

\* the call of f with the values args
call_value(f, args) ==
    IF args.exc # "" THEN args
    ELSE CASE f.v.t = "func" -> call_function(f.v.name, args.v)
           [] f.v.t = "method" ->
                 IF Len(args.v) # 0 THEN Raise("TypeError")
                 ELSE Ok(PStr(str_upper(f.v.self.s)))
           [] OTHER -> Raise("TypeError")

call_after(node, f) ==
    IF f.exc # "" THEN f ELSE call_value(f, eval_nodes(node.args, 1, <<>>))

eval_node(node) ==
    CASE node.k = "const" -> Ok(node.v)
      [] node.k = "name" ->
            CASE node.s \in ContextFunctions -> Ok(PFunc(node.s))
              [] node.s = <<"t","r","u","e">> -> Ok(PBool(TRUE))
              [] node.s = <<"f","a","l","s","e">> -> Ok(PBool(FALSE))
              [] node.s = <<"n","u","l","l">> -> Ok(None)
              [] node.s = <<"r","e","s","u","l","t">> -> Raise(Unsupported)
              [] OTHER -> Raise("NameError")
      [] node.k = "not"  -> not_value(eval_node(node.a))
      [] node.k = "and"  -> and_value(node, eval_node(node.l))
      [] node.k = "or"   -> or_value(node, eval_node(node.l))
      [] node.k = "eq"   -> eq_after(node, eval_node(node.l))
      [] node.k = "list" -> list_value(eval_nodes(node.e, 1, <<>>))
      [] node.k = "dict" -> eval_items(node.kv, 1, PDict(<<>>))
      [] node.k = "attr" -> attr_value(eval_node(node.a))
      [] node.k = "call" -> call_after(node, eval_node(node.f))

\* the value of the expression parsed, or the exception of the parse
value_of(r) ==
    IF r.err # "" THEN Raise(r.err) ELSE eval_node(r.node)

\* eval(text, {"__builtins__": {}}, context): the value, or the exception
py_eval(text) == value_of(parse_expression(text))

\* lines 178-217 for a condition that is a non-empty text: the substitution
\* of the variables, the references to the result, eval
eval_outcome(condition, result, env) ==
    py_eval(re_sub_result(replace_env_vars(condition, env), 1, result))

(***************************************************************************)
(* Bounds and input sets                                                   *)
(***************************************************************************)
MaxTextLen == 4     \* length of the texts substitution is applied to
MaxSegs == 3        \* segments of a path
MaxStmts == 2       \* statements of an action text

\* all sequences over S of length 0..n
RECURSIVE SeqsUpTo(_, _)
SeqsUpTo(S, n) ==
    IF n = 0 THEN {<<>>}
    ELSE LET shorter == SeqsUpTo(S, n - 1)
         IN  shorter \cup {Append(q, x) : q \in {r \in shorter : Len(r) = n - 1}, x \in S}

\* all dicts name -> text with names among Names and texts among Values
EnvsOver(Names, Values) ==
    UNION {[D -> Values] : D \in SUBSET Names}

NoCall == [n |-> 0]

\* the run loop at rest, for the operations exercised on their own
RunnerIdle ==
    /\ cycle_results = <<>>
    /\ results = <<>>
    /\ workbook = <<>>
    /\ cycles = 1
    /\ sheet_idx = 0
    /\ cycle = 0
    /\ row_idx = 0
    /\ setup_success = TRUE
    /\ sheet_has_failures = FALSE
    /\ console = <<>>
    /\ faults = 0
    /\ log = <<>>
    /\ last = NoCall

runnerVars == <<cycle_results, results, workbook, cycles, sheet_idx, cycle, row_idx,
                setup_success, sheet_has_failures, console, faults, log, last>>

(***************************************************************************)
(* Substitution exercised on its own: replace_env_vars twice on a text     *)
(***************************************************************************)
SubstChars == {"$", "a", "b", "."}

SubstNames == {<<"a">>, <<"b">>, <<"a","b">>}

SubstValues == {<<>>, <<"b">>, <<"$","b">>}

InitSubst ==
    /\ RunnerIdle
    /\ pc = "subst"
    /\ environment_vars \in EnvsOver(SubstNames, SubstValues)
    /\ fin \in [text : SeqsUpTo(SubstChars, MaxTextLen)]
    /\ fout = [n |-> 0]

\* text = self.replace_env_vars(text)
Substitute ==
    /\ pc = "subst"
    /\ fout.n = 0
    /\ fout' = [n |-> 1, env0 |-> environment_vars,
                out |-> replace_env_vars(fin.text, environment_vars)]
    /\ UNCHANGED <<environment_vars, pc, fin>>
    /\ UNCHANGED runnerVars

\* a second pass over the text the first pass returned
SubstituteAgain ==
    /\ pc = "subst"
    /\ fout.n = 1
    /\ fout' = [fout EXCEPT !.n = 2] @@
               [out2 |-> replace_env_vars(fout.out, environment_vars)]
    /\ UNCHANGED <<environment_vars, pc, fin>>
    /\ UNCHANGED runnerVars

NextSubst == Substitute \/ SubstituteAgain

SpecSubst == InitSubst /\ [][NextSubst]_vars

(***************************************************************************)
(* Properties of substitution                                              *)
(***************************************************************************)
\* position i of t starts a token $name
TokStart(t, i) == t[i] = "$" /\ i < Len(t) /\ IdChar(t[i + 1])

\* the last character of the token that starts at i
TokEnd(t, i) ==
    CHOOSE j \in (i + 1)..Len(t) :
        /\ \A k \in (i + 1)..j : IdChar(t[k])
        /\ j = Len(t) \/ ~IdChar(t[j + 1])

TokName(t, i) == SubSeq(t, i + 1, TokEnd(t, i))

\* the token that starts at i has a bound name
Replaced(t, i, env) == TokStart(t, i) /\ TokName(t, i) \in DOMAIN env

\* position i lies inside a token with a bound name, after its "$"
Covered(t, i, env) == \E s \in 1..(i - 1) : Replaced(t, s, env) /\ i <= TokEnd(t, s)

\* what position i of t contributes to the substituted text
ExpectedPiece(t, i, env) ==
    IF Replaced(t, i, env) THEN env[TokName(t, i)]
    ELSE IF Covered(t, i, env) THEN <<>>
    ELSE <<t[i]>>

ExpectedSubst(t, env) == Flatten([i \in 1..Len(t) |-> ExpectedPiece(t, i, env)])

\* C8: substitute(text) is text with every $name of a bound name replaced by
\* the bound value and every other character, the $name of unbound names
\* included, kept; a text without a $name token comes back unchanged; the
\* Environment Store is as it was before.
C8_SubstituteReplacesBoundOnly ==
    (pc = "subst" /\ fout.n >= 1) =>
        /\ fout.out = ExpectedSubst(fin.text, fout.env0)
        /\ (\A i \in 1..Len(fin.text) : ~TokStart(fin.text, i)) => fout.out = fin.text
        /\ environment_vars = fout.env0

\* a text with a bound token and an unbound token has been substituted
C8_Witness ==
    /\ pc = "subst"
    /\ fout.n = 1
    /\ \E i, j \in 1..Len(fin.text) :
          /\ Replaced(fin.text, i, fout.env0)
          /\ TokStart(fin.text, j)
          /\ ~Replaced(fin.text, j, fout.env0)
    /\ fout.out # fin.text

HasDollar(v) == \E k \in 1..Len(v) : v[k] = "$"

\* no token of t that is replaced has a value with a "$" in it
NoDollarInReplacements(t, env) ==
    \A i \in 1..Len(t) : Replaced(t, i, env) => ~HasDollar(env[TokName(t, i)])

\* position i comes directly after a "$" or after a $name token
FollowsDollarOrToken(t, i) ==
    /\ i > 1
    /\ \/ t[i - 1] = "$"
       \/ \E s \in 1..(i - 1) : TokStart(t, s) /\ TokEnd(t, s) = i - 1

SinglePassOnDollarA ==
    LET a == <<"a">>
        b == <<"b">>
    IN  (/\ fin.text = <<"$", "a">>
         /\ a \in DOMAIN fout.env0
         /\ b \in DOMAIN fout.env0
         /\ fout.env0[a] = <<"$", "b">>) => fout.out = <<"$", "b">>

\* C9 as stated: one pass leaves the $b of a's value unexpanded, and a second
\* pass changes nothing whenever no replaced token's value contains "$".
C9_AsStated ==
    (pc = "subst" /\ fout.n = 2) =>
        /\ SinglePassOnDollarA
        /\ NoDollarInReplacements(fin.text, fout.env0) => fout.out2 = fout.out

\* C9 amended: one pass leaves the $b of a's value unexpanded, and a second
\* pass changes nothing whenever no replaced token's value contains "$" and no
\* replaced token comes directly after a "$" or after another $name token.
C9_SinglePass ==
    (pc = "subst" /\ fout.n = 2) =>
        /\ SinglePassOnDollarA
        /\ (/\ NoDollarInReplacements(fin.text, fout.env0)
            /\ \A i \in 1..Len(fin.text) :
                  Replaced(fin.text, i, fout.env0) => ~FollowsDollarOrToken(fin.text, i))
           => fout.out2 = fout.out

\* $a with a bound to $b and b bound has gone through two passes
C9_Witness ==
    /\ pc = "subst"
    /\ fout.n = 2
    /\ fin.text = <<"$", "a">>
    /\ <<"a">> \in DOMAIN fout.env0
    /\ <<"b">> \in DOMAIN fout.env0
    /\ fout.env0[<<"a">>] = <<"$", "b">>
    /\ fout.out = <<"$", "b">>

(***************************************************************************)
(* The path resolver exercised on its own                                  *)
(***************************************************************************)
\* {"d": [{"r": {"i": 7}}]}
RootB == PDict(<< <<<<"d">>, PList(<<PDict(<< <<<<"r">>, PDict(<< <<<<"i">>, PNum(7)>> >>)>> >>)>>)>> >>)

\* {"a": [1, null, "x"], "0": [9]}
RootA == PDict(<< <<<<"a">>, PList(<<PNum(1), None, PStr(<<"x">>)>>)>>,
                  <<<<"0">>, PList(<<PNum(9)>>)>> >>)

\* [{"a": [3]}, [4]]
RootL == PList(<<PDict(<< <<<<"a">>, PList(<<PNum(3)>>)>> >>), PList(<<PNum(4)>>)>>)

\* {"a": {"0": 1}, "d": "s", "r": null}
RootD == PDict(<< <<<<"a">>, PDict(<< <<<<"0">>, PNum(1)>> >>)>>,
                  <<<<"d">>, PStr(<<"s">>)>>,
                  <<<<"r">>, None>> >>)

PathRoots == {RootB, RootA, RootL, RootD, PStr(<<"a">>)}

\* the segments paths are built from: a key, name[idx], a bare index, and
\* texts that are none of these
PathSegs ==
    {[k |-> "key", name |-> n] : n \in {<<"a">>, <<"d">>, <<"r">>, <<"i">>, LengthText}}
    \cup {[k |-> "idx", name |-> <<"a">>, i |-> j] : j \in {0, 1, 3}}
    \cup {[k |-> "idx", name |-> n, i |-> 0] : n \in {<<"d">>, <<"0">>}}
    \cup {[k |-> "num", i |-> j] : j \in {0, 1}}
    \cup {[k |-> "raw", text |-> x] : x \in {<<"a","[","0">>, <<"a","[","0","]","x">>,
                                            <<"a","[","0","1","]">>}}

\* the text of a segment
SegText(seg) ==
    CASE seg.k = "key" -> seg.name
      [] seg.k = "idx" -> seg.name \o <<"[">> \o IntToText(seg.i) \o <<"]">>
      [] seg.k = "num" -> IntToText(seg.i)
      [] seg.k = "raw" -> seg.text

\* the path text of a sequence of segments
PathText(segs) == Join([k \in 1..Len(segs) |-> SegText(segs[k])], <<".">>)

InitPath ==
    /\ RunnerIdle
    /\ pc = "path"
    /\ environment_vars = <<>>
    /\ fin \in [obj : PathRoots, segs : SeqsUpTo(PathSegs, MaxSegs)]
    /\ fout = [n |-> 0]

\* value = self._get_nested_value(result, path)
Resolve ==
    /\ pc = "path"
    /\ fout.n = 0
    /\ fout' = [n |-> 1, value |-> _get_nested_value(fin.obj, PathText(fin.segs))]
    /\ UNCHANGED <<environment_vars, pc, fin>>
    /\ UNCHANGED runnerVars

NextPath == Resolve

SpecPath == InitPath /\ [][NextPath]_vars

\* the value after the first k segments of the path of fin
ResolvedUpTo(k) ==
    IF k = 0 THEN fin.obj
    ELSE IF k = Len(fin.segs) THEN fout.value
    ELSE _get_nested_value(fin.obj, PathText(SubSeq(fin.segs, 1, k)))

\* the list that name[idx] indexes in cur, as a set with at most one element
IndexedLists(cur, seg) ==
    IF cur.t = "dict"
    THEN {cur.kv[j][2] : j \in {m \in 1..Len(cur.kv) :
                                   /\ cur.kv[m][1] = seg.name
                                   /\ cur.kv[m][2].t = "list"
                                   /\ seg.i < Len(cur.kv[m][2].e)}}
    ELSE {}

\* C10: a segment name[idx] yields element idx of the Array under key name of
\* the current Object when there is such an Array and idx is below its
\* length, and nothing (None) in every other case; the path d[0].r.i reaches
\* the nested 7 of {"d": [{"r": {"i": 7}}]}.
C10_IndexedSegment ==
    (pc = "path" /\ fout.n = 1) =>
        /\ \A k \in 1..Len(fin.segs) :
              fin.segs[k].k = "idx" =>
                  LET ls == IndexedLists(ResolvedUpTo(k - 1), fin.segs[k])
                  IN  IF ls = {} THEN ResolvedUpTo(k) = None
                      ELSE \A l \in ls : ResolvedUpTo(k) = l.e[fin.segs[k].i + 1]
        /\ (/\ fin.obj = RootB
            /\ PathText(fin.segs) = <<"d","[","0","]",".","r",".","i">>) => fout.value = PNum(7)

\* d[0].r.i has been resolved against {"d": [{"r": {"i": 7}}]}
C10_Witness ==
    /\ pc = "path"
    /\ fout.n = 1
    /\ fin.obj = RootB
    /\ fin.segs = <<[k |-> "idx", name |-> <<"d">>, i |-> 0],
                    [k |-> "key", name |-> <<"r">>], [k |-> "key", name |-> <<"i">>]>>
    /\ fout.value = PNum(7)

\* C11: a bare index segment yields element idx of the current value when
\* that is an Array longer than idx, and nothing (None) against every other
\* current value, an Object with the digits as a key included; the empty path
\* yields the root itself; after a None every further segment yields None.
C11_BareIndexAndAbsent ==
    (pc = "path" /\ fout.n = 1) =>
        /\ \A k \in 1..Len(fin.segs) :
              fin.segs[k].k = "num" =>
                  LET cur == ResolvedUpTo(k - 1)
                  IN  IF cur.t = "list" /\ fin.segs[k].i < Len(cur.e)
                      THEN ResolvedUpTo(k) = cur.e[fin.segs[k].i + 1]
                      ELSE ResolvedUpTo(k) = None
        /\ fin.segs = <<>> => fout.value = fin.obj
        /\ \A k \in 1..Len(fin.segs) :
              ResolvedUpTo(k - 1) = None => ResolvedUpTo(k) = None

\* a.0 has been resolved against {"a": {"0": 1}, ...}: the Object under a
\* holds the key "0", and the bare index finds nothing
C11_Witness ==
    /\ pc = "path"
    /\ fout.n = 1
    /\ fin.obj = RootD
    /\ fin.segs = <<[k |-> "key", name |-> <<"a">>], [k |-> "num", i |-> 0]>>
    /\ fout.value = None

(***************************************************************************)
(* The action binder exercised on its own                                  *)
(***************************************************************************)
CodeText == <<"c","o","d","e">>

BodyText == <<"b","o","d","y">>

KeySeg(name) == [k |-> "key", name |-> name]

\* {"t": "x1"}
BodyToken == PDict(<< <<<<"t">>, PStr(<<"x","1">>)>> >>)

\* {"t": null, "a": [false]}
BodyNull == PDict(<< <<<<"t">>, None>>, <<<<"a">>, PList(<<PBool(FALSE)>>)>> >>)

\* {"a": [{"k": 1}], "t": 5}
BodyNested == PDict(<< <<<<"a">>, PList(<<PDict(<< <<<<"k">>, PNum(1)>> >>)>>)>>,
                       <<<<"t">>, PNum(5)>> >>)

\* the part of api_result_data the paths of the model reach
ResultOf(code, body) == PDict(<< <<CodeText, PNum(code)>>, <<BodyText, body>> >>)

ActResults == {ResultOf(200, b) : b \in {BodyToken, BodyNull, BodyNested}}

\* statements: $name = result.<path> with or without blanks around "=", and
\* a text that is no assignment
ActStmts ==
    {[k |-> "assign", name |-> <<"t">>, segs |-> <<KeySeg(BodyText), KeySeg(<<"t">>)>>, sp |-> <<" ">>],
     [k |-> "assign", name |-> <<"u">>, sp |-> <<>>,
      segs |-> <<KeySeg(BodyText), [k |-> "idx", name |-> <<"a">>, i |-> 0]>>],
     [k |-> "assign", name |-> <<"t">>, segs |-> <<KeySeg(BodyText), KeySeg(<<"x">>)>>, sp |-> <<" ">>],
     [k |-> "assign", name |-> <<"u">>, segs |-> <<KeySeg(CodeText)>>, sp |-> <<" ", " ">>],
     [k |-> "raw", text |-> <<"t"," ","="," ","1">>]}

StmtText(st) ==
    IF st.k = "raw" THEN st.text
    ELSE <<"$">> \o st.name \o st.sp \o <<"=">> \o st.sp \o ResultDot \o PathText(st.segs)

ActSeps == {<<";">>, <<";", " ">>, <<"\n">>}

ActionText(stmts, sep) == Join([k \in 1..Len(stmts) |-> StmtText(stmts[k])], sep)

InitAction ==
    /\ RunnerIdle
    /\ pc = "action"
    /\ environment_vars \in EnvsOver({<<"t">>, <<"u">>}, {<<"o">>})
    /\ fin \in [stmts : SeqsUpTo(ActStmts, MaxStmts) \ {<<>>}, sep : ActSeps, result : ActResults]
    /\ fout = [n |-> 0]

\* self.validator.execute_action(action, api_result_data)
ApplyAction ==
    /\ pc = "action"
    /\ fout.n = 0
    /\ environment_vars' = execute_action(ActionText(fin.stmts, fin.sep), fin.result,
                                          environment_vars)
    /\ fout' = [n |-> 1, env0 |-> environment_vars]
    /\ UNCHANGED <<pc, fin>>
    /\ UNCHANGED runnerVars

NextAction == ApplyAction

SpecAction == InitAction /\ [][NextAction]_vars

\* name has the same binding, or the same lack of one, in e1 and e2
SameBinding(e1, e2, name) ==
    IF name \in DOMAIN e1 THEN name \in DOMAIN e2 /\ e2[name] = e1[name]
    ELSE name \notin DOMAIN e2

\* the value statement k of fin assigns, None when its path does not resolve
AssignedValue(k) == _get_nested_value(fin.result, PathText(fin.stmts[k].segs))

\* statement k of fin is an assignment to name whose path resolves
Resolving(k, name) ==
    /\ fin.stmts[k].k = "assign"
    /\ fin.stmts[k].name = name
    /\ AssignedValue(k) # None

\* C6: a name whose assignments in the action text all have a path that does
\* not resolve keeps its binding, or stays unbound; the statements of the
\* same text that do resolve are applied, the last one for a name giving the
\* binding.
C6_UnresolvedLeavesBinding ==
    (pc = "action" /\ fout.n = 1) =>
        \A name \in {<<"t">>, <<"u">>} :
            LET ks == {k \in 1..Len(fin.stmts) : Resolving(k, name)}
            IN  IF ks = {} THEN SameBinding(fout.env0, environment_vars, name)
                ELSE /\ name \in DOMAIN environment_vars
                     /\ \A k \in ks :
                           (\A m \in ks : m <= k) =>
                               environment_vars[name] = value_str(AssignedValue(k))

\* an unresolved assignment to the bound t and a resolved one to u, in one text
C6_Witness ==
    /\ pc = "action"
    /\ fout.n = 1
    /\ <<"t">> \in DOMAIN fout.env0
    /\ \E k \in 1..Len(fin.stmts) :
          /\ fin.stmts[k].k = "assign"
          /\ fin.stmts[k].name = <<"t">>
          /\ AssignedValue(k) = None
    /\ \A k \in 1..Len(fin.stmts) : ~Resolving(k, <<"t">>)
    /\ \E k \in 1..Len(fin.stmts) : Resolving(k, <<"u">>)
    /\ environment_vars[<<"t">>] = fout.env0[<<"t">>]
    /\ environment_vars # fout.env0

\* statement k of fin is  $name = result.body.<key>  and the body holds null
\* under that key
AssignsNull(k) ==
    /\ fin.stmts[k].k = "assign"
    /\ Len(fin.stmts[k].segs) = 2
    /\ fin.stmts[k].segs[1] = KeySeg(BodyText)
    /\ fin.stmts[k].segs[2].k = "key"
    /\ LET body == DictGet(fin.result, BodyText)
       IN  \E j \in 1..Len(body.kv) :
              body.kv[j][1] = fin.stmts[k].segs[2].name /\ body.kv[j][2] = None

\* C7: an assignment whose path resolves to a JSON null binds name to the
\* text null (unless a later statement of the text rebinds name).
C7_NullBindsNullText ==
    (pc = "action" /\ fout.n = 1) =>
        \A k \in 1..Len(fin.stmts) :
            (/\ AssignsNull(k)
             /\ \A m \in (k + 1)..Len(fin.stmts) : ~Resolving(m, fin.stmts[k].name))
            => /\ fin.stmts[k].name \in DOMAIN environment_vars
               /\ environment_vars[fin.stmts[k].name] = <<"n","u","l","l">>

(***************************************************************************)
(* Spreadsheet cells, rows and responses                                   *)
(***************************************************************************)
\* an empty cell (pd.isna), a text cell, a number cell, a date cell
NaN == [k |-> "nan"]

Txt(s) == [k |-> "str", s |-> s]

IntCell(n) == [k |-> "int", n |-> n]

DateCell == [k |-> "date"]

\* the "N/A" a per-run result starts with
NA == [k |-> "na"]

notna(cell) == cell.k # "nan"

\* str(cell) for a text or number cell
CellStr(cell) == IF cell.k = "int" THEN IntToText(cell.n) ELSE cell.s

\* the columns of a row that the model follows
Row(name, path, code, action) ==
    [test_case_name |-> name, api_path |-> path, expect_response_code |-> code,
     expect_response_body |-> NaN, expect_response_header |-> NaN,
     action |-> action, query_param |-> NaN, inject_header |-> NaN, body |-> NaN]

\* the row with this cell in the column expect_response_body
WithBody(row, cell) == [row EXCEPT !.expect_response_body = cell]

\* the row with this cell in the column expect_response_header
WithHeader(row, cell) == [row EXCEPT !.expect_response_header = cell]

\* the row with these cells in the columns query_param, inject_header and body
WithRequest(row, query_param, inject_header, body) ==
    [row EXCEPT !.query_param = query_param, !.inject_header = inject_header,
                !.body = body]

\* what api_client.execute_request does: it returns the processed response
\* or raises an exception of requests.exceptions or another exception
Response(code, body, elapsed) == [k |-> "response", code |-> code, body |-> body,
                                  elapsed |-> elapsed]

RequestsError == [k |-> "requests_error"]

OtherError == [k |-> "other_error"]

\* api_result_data as the paths of conditions and actions see it
api_result_data(resp) == ResultOf(resp.code, resp.body)

(***************************************************************************)
(* Validator.evaluate_condition for a cell of a sheet                      *)
(***************************************************************************)
\* not condition or pd.isna(condition), for an empty, a text or a number cell
condition_missing(condition) ==
    \/ ~notna(condition)
    \/ condition.k = "str" /\ condition.s = <<>>
    \/ condition.k = "int" /\ condition.n = 0

\* return bool(eval_result), and return False of the except branch, for the
\* outcome o of the try block
condition_result(o) == IF o.exc # "" THEN FALSE ELSE py_bool(o.v)

evaluate_condition_exceptionPasses(condition, result, env) ==
    IF condition_missing(condition) THEN TRUE
    ELSE LET o == eval_outcome(CellStr(condition), result, env)
         IN  IF o.exc # "" THEN TRUE ELSE py_bool(o.v)

\* lines 120-221: every exception of the try block is caught and makes the
\* result False
evaluate_condition(condition, result, env) ==
    IF condition_missing(condition) THEN TRUE
    ELSE condition_result(eval_outcome(CellStr(condition), result, env))

(***************************************************************************)
(* Validator.validate_response                                             *)
(***************************************************************************)
\* int(expected_code): a number, "ValueError" for a text that is no number,
\* "TypeError" for a cell that is neither text nor number
int_of_cell(cell) ==
    CASE cell.k = "int" -> [k |-> "int", n |-> cell.n]
      [] cell.k = "str" -> IF isdigit(Strip(cell.s))
                           THEN [k |-> "int", n |-> ParseInt(Strip(cell.s))]
                           ELSE [k |-> "ValueError"]
      [] OTHER          -> [k |-> "TypeError"]

\* the status code check, lines 23-35
validate_code_noteOnly(test_case, resp) ==
    LET expected_code == test_case.expect_response_code
        conv == int_of_cell(expected_code)
        base == [raised |-> FALSE, body_validation |-> "N/A", header_validation |-> "N/A",
                 test_passed_validations |-> TRUE, details |-> <<>>]
    IN  IF ~notna(expected_code) THEN base
        ELSE IF conv.k = "TypeError" THEN [raised |-> TRUE]
        ELSE IF conv.k = "ValueError"
             THEN [base EXCEPT !.details = <<[d |-> "InvalidExpectCode", value |-> expected_code]>>]
        ELSE IF resp.code # conv.n
             THEN [base EXCEPT !.details = <<[d |-> "StatusCodeFailed", expected |-> conv.n,
                                             actual |-> resp.code]>>]
        ELSE base

validate_code(test_case, resp) ==
    LET expected_code == test_case.expect_response_code
        conv == int_of_cell(expected_code)
        base == [raised |-> FALSE, body_validation |-> "N/A", header_validation |-> "N/A",
                 test_passed_validations |-> TRUE, details |-> <<>>]
    IN  IF ~notna(expected_code) THEN base
        ELSE IF conv.k = "TypeError" THEN [raised |-> TRUE]
        ELSE IF conv.k = "ValueError"
             THEN [base EXCEPT !.details = <<[d |-> "InvalidExpectCode", value |-> expected_code]>>]
        ELSE IF resp.code # conv.n
             THEN [base EXCEPT !.details = <<[d |-> "StatusCodeFailed", expected |-> conv.n,
                                             actual |-> resp.code]>>,
                               !.test_passed_validations = FALSE]
        ELSE base

\* the body check, lines 37-45
validate_body(v, test_case, resp, env) ==
    LET expected_body == test_case.expect_response_body
    IN  IF ~notna(expected_body) THEN v
        ELSE IF ~evaluate_condition(expected_body, api_result_data(resp), env)
        THEN [v EXCEPT !.body_validation = "Failed",
                       !.details = @ \o <<[d |-> "BodyValidationFailed",
                                           value |-> expected_body]>>,
                       !.test_passed_validations = FALSE]
        ELSE [v EXCEPT !.body_validation = "Passed"]

\* the header check, lines 47-55
validate_headers(v, test_case, resp, env) ==
    LET expected_headers == test_case.expect_response_header
    IN  IF ~notna(expected_headers) THEN v
        ELSE IF ~evaluate_condition(expected_headers, api_result_data(resp), env)
        THEN [v EXCEPT !.header_validation = "Failed",
                       !.details = @ \o <<[d |-> "HeaderValidationFailed",
                                           value |-> expected_headers]>>,
                       !.test_passed_validations = FALSE]
        ELSE [v EXCEPT !.header_validation = "Passed"]

\* env is the dict of the framework, which the validator shares
validate_response(test_case, resp, env) ==
    LET code == validate_code(test_case, resp)
    IN  IF code.raised THEN code
        ELSE validate_headers(validate_body(code, test_case, resp, env),
                              test_case, resp, env)

(***************************************************************************)
(* json.loads, as far as the texts of the model go                         *)
(***************************************************************************)
\* a float that json.loads read, held as its text
PFloat(s) == [t |-> "float", s |-> s]

\* the result of a scan that ended before position e, and json.JSONDecodeError
Scanned(v, e) == [exc |-> "", v |-> v, e |-> e]

JSONDecodeError == [exc |-> "JSONDecodeError"]

\* the white space of json.decoder: WHITESPACE.match(s, i).end()
RECURSIVE json_ws(_, _)
json_ws(s, i) ==
    IF i <= Len(s) /\ s[i] \in {" ", "\t", "\n", "\r"} THEN json_ws(s, i + 1) ELSE i

\* s[i:i + len(word)] == word
WordAt(s, i, word) ==
    i + Len(word) - 1 <= Len(s) /\ SubSeq(s, i, i + Len(word) - 1) = word

\* py_scanstring(s, i, strict=True) for a string whose opening quote is
\* before i: a control character in the string and a string without its
\* closing quote are errors; a backslash escape is outside the model
json_string(s, i) ==
    LET stops == {k \in i..Len(s) : s[k] \in {"\"", "\\", "\n", "\t", "\r", "\f"}}
    IN  IF stops = {} THEN JSONDecodeError
        ELSE LET k == CHOOSE j \in stops : \A m \in stops : j <= m
             IN  IF s[k] = "\"" THEN Scanned(PStr(SubSeq(s, i, k - 1)), k + 1)
                 ELSE IF s[k] = "\\" THEN [exc |-> "Unsupported"]
                 ELSE JSONDecodeError

\* the end of the match of (-?(?:0|[1-9]\d*)) at i, i - 1 for no match
json_int_end(s, i) ==
    LET d == IF i <= Len(s) /\ s[i] = "-" THEN i + 1 ELSE i
    IN  IF d > Len(s) \/ s[d] \notin Digit THEN i - 1
        ELSE IF s[d] = "0" THEN d
        ELSE RunEnd(s, d, "digit")

\* the end of (\.\d+)? after position e
json_frac_end(s, e) ==
    IF e + 2 <= Len(s) /\ s[e + 1] = "." /\ s[e + 2] \in Digit
    THEN RunEnd(s, e + 2, "digit") ELSE e

\* the end of ([eE][-+]?\d+)? after position e
json_exp_end(s, e) ==
    LET d == IF e + 2 <= Len(s) /\ s[e + 2] \in {"-", "+"} THEN e + 3 ELSE e + 2
    IN  IF e + 1 <= Len(s) /\ s[e + 1] \in {"e", "E"} /\ d <= Len(s) /\ s[d] \in Digit
        THEN RunEnd(s, d, "digit") ELSE e

\* the number matched from i to the end of its integer part ie
json_number(s, i, ie) ==
    IF json_exp_end(s, json_frac_end(s, ie)) = ie
    THEN Scanned(PNum(IF s[i] = "-" THEN 0 - ParseInt(SubSeq(s, i + 1, ie))
                      ELSE ParseInt(SubSeq(s, i, ie))), ie + 1)
    ELSE Scanned(PFloat(SubSeq(s, i, json_exp_end(s, json_frac_end(s, ie)))),
                 json_exp_end(s, json_frac_end(s, ie)) + 1)

RECURSIVE json_value(_, _), json_array(_, _, _), json_key(_, _, _)

\* JSONArray after a value: "]" ends the list, "," brings the next value
json_array_next(s, acc, i) ==
    IF i > Len(s) THEN JSONDecodeError
    ELSE IF s[i] = "]" THEN Scanned(PList(acc), i + 1)
    ELSE IF s[i] = "," THEN json_array(s, json_ws(s, i + 1), acc)
    ELSE JSONDecodeError

json_array_after(s, acc, r) ==
    IF r.exc # "" THEN r ELSE json_array_next(s, Append(acc, r.v), json_ws(s, r.e))

\* JSONArray from the value at i on
json_array(s, i, acc) == json_array_after(s, acc, json_value(s, i))

\* JSONObject after a value: "}" ends the dict, "," brings the next key
json_object_next(s, acc, i) ==
    IF i > Len(s) THEN JSONDecodeError
    ELSE IF s[i] = "}" THEN Scanned(acc, i + 1)
    ELSE IF s[i] = "," THEN json_key(s, json_ws(s, i + 1), acc)
    ELSE JSONDecodeError

json_object_after(s, acc, key, r) ==
    IF r.exc # "" THEN r ELSE json_object_next(s, DictSet(acc, key, r.v), json_ws(s, r.e))

\* the ":" and the value after a key
json_object_value(s, acc, key, i) ==
    IF i > Len(s) \/ s[i] # ":" THEN JSONDecodeError
    ELSE json_object_after(s, acc, key, json_value(s, json_ws(s, i + 1)))

json_object_colon(s, acc, k) ==
    IF k.exc # "" THEN k ELSE json_object_value(s, acc, k.v.s, json_ws(s, k.e))

\* JSONObject from the key at i on: a key is a string
json_key(s, i, acc) ==
    IF i > Len(s) \/ s[i] # "\"" THEN JSONDecodeError
    ELSE json_object_colon(s, acc, json_string(s, i + 1))

\* JSONObject after "{"
json_object(s, i) ==
    IF i <= Len(s) /\ s[i] = "}" THEN Scanned(PDict(<<>>), i + 1)
    ELSE json_key(s, i, PDict(<<>>))

\* scan_once(s, i) of json.scanner
json_value(s, i) ==
    IF i > Len(s) THEN JSONDecodeError
    ELSE IF s[i] = "\"" THEN json_string(s, i + 1)
    ELSE IF s[i] = "{" THEN json_object(s, json_ws(s, i + 1))
    ELSE IF s[i] = "[" THEN
         (IF json_ws(s, i + 1) <= Len(s) /\ s[json_ws(s, i + 1)] = "]"
          THEN Scanned(PList(<<>>), json_ws(s, i + 1) + 1)
          ELSE json_array(s, json_ws(s, i + 1), <<>>))
    ELSE IF WordAt(s, i, <<"n","u","l","l">>) THEN Scanned(None, i + 4)
    ELSE IF WordAt(s, i, <<"t","r","u","e">>) THEN Scanned(PBool(TRUE), i + 4)
    ELSE IF WordAt(s, i, <<"f","a","l","s","e">>) THEN Scanned(PBool(FALSE), i + 5)
    ELSE IF json_int_end(s, i) >= i THEN json_number(s, i, json_int_end(s, i))
    ELSE IF WordAt(s, i, <<"N","a","N">>) THEN Scanned(PFloat(<<"N","a","N">>), i + 3)
    ELSE IF WordAt(s, i, <<"I","n","f","i","n","i","t","y">>)
         THEN Scanned(PFloat(<<"I","n","f","i","n","i","t","y">>), i + 8)
    ELSE IF WordAt(s, i, <<"-","I","n","f","i","n","i","t","y">>)
         THEN Scanned(PFloat(<<"-","I","n","f","i","n","i","t","y">>), i + 9)
    ELSE JSONDecodeError

\* JSONDecoder.decode after raw_decode: nothing but white space may follow
json_end(s, r) ==
    IF r.exc # "" THEN r
    ELSE IF json_ws(s, r.e) # Len(s) + 1 THEN JSONDecodeError
    ELSE Ok(r.v)

json_loads(s) == json_end(s, json_value(s, json_ws(s, 1)))

(***************************************************************************)
(* RequestParser: parse_dict_list, parse_headers, parse_json_body          *)
(***************************************************************************)
\* text.replace(a, b) for single characters
ReplaceChar(text, a, b) == [i \in 1..Len(text) |-> IF text[i] = a THEN b ELSE text[i]]

\* text.strip(chars)
RECURSIVE StripChars(_, _)
StripChars(text, chars) ==
    IF text = <<>> THEN <<>>
    ELSE IF text[1] \in chars THEN StripChars(Tail(text), chars)
    ELSE IF text[Len(text)] \in chars THEN StripChars(SubSeq(text, 1, Len(text) - 1), chars)
    ELSE text

\* text.split(sep, 1)
SplitOnce(text, sep) ==
    LET at == {k \in 1..Len(text) : text[k] = sep}
    IN  IF at = {} THEN <<text>>
        ELSE LET k == CHOOSE j \in at : \A m \in at : j <= m
             IN  <<SubSeq(text, 1, k - 1), SubSeq(text, k + 1, Len(text))>>

\* re.findall(r'\{(.*?)\}', text) from position i on: a group runs from a
\* "{" to the first "}" after it, with no line feed in between
RECURSIVE brace_groups(_, _)
brace_groups(text, i) ==
    LET closes(j) == {k \in (j + 1)..Len(text) : text[k] = "}"}
        first(j) == CHOOSE k \in closes(j) : \A m \in closes(j) : k <= m
        opens == {j \in i..Len(text) :
                     /\ text[j] = "{"
                     /\ closes(j) # {}
                     /\ \A m \in (j + 1)..(first(j) - 1) : text[m] # "\n"}
    IN  IF opens = {} THEN <<>>
        ELSE LET j == CHOOSE o \in opens : \A m \in opens : o <= m
             IN  <<SubSeq(text, j + 1, first(j) - 1)>> \o brace_groups(text, first(j) + 1)

\* [p.strip("'\" ") for p in item.split(sep, 1)]
stripped_parts(item, sep) ==
    [k \in 1..Len(SplitOnce(item, sep)) |->
        StripChars(SplitOnce(item, sep)[k], {"'", "\"", " "})]

\* the body of the fallback loop for one group (lines 59-70)
fallback_item(result_dict, item) ==
    IF item = <<>> THEN result_dict
    ELSE IF Len(SplitOnce(item, ",")) = 2
    THEN DictSet(result_dict, stripped_parts(item, ",")[1], PStr(stripped_parts(item, ",")[2]))
    ELSE IF Len(SplitOnce(item, ":")) = 2
    THEN DictSet(result_dict, stripped_parts(item, ":")[1], PStr(stripped_parts(item, ":")[2]))
    ELSE result_dict

\* the fallback loop over the groups from the k-th on
RECURSIVE fallback_items(_, _, _)
fallback_items(items, k, result_dict) ==
    IF k > Len(items) THEN result_dict
    ELSE fallback_items(items, k + 1, fallback_item(result_dict, Strip(items[k])))

\* result_dict.update(item) for a dict item, from its k-th pair on
RECURSIVE dict_update(_, _, _)
dict_update(result_dict, item, k) ==
    IF k > Len(item.kv) THEN result_dict
    ELSE dict_update(DictSet(result_dict, item.kv[k][1], item.kv[k][2]), item, k + 1)

\* the loop over parsed_list from its k-th item on (lines 45-47)
RECURSIVE merge_items(_, _, _)
merge_items(parsed_list, k, result_dict) ==
    IF k > Len(parsed_list) THEN result_dict
    ELSE merge_items(parsed_list, k + 1,
                     IF parsed_list[k].t = "dict"
                     THEN dict_update(result_dict, parsed_list[k], 1)
                     ELSE result_dict)

\* lines 38-78 for the substituted text, r being what json.loads gave for
\* it: json.JSONDecodeError leads to the fallback, another exception to {}
dict_list_result_noFallback(text, r) ==
    IF r.exc # "" THEN r
    ELSE IF r.v.t = "list" THEN Ok(merge_items(r.v.e, 1, PDict(<<>>)))
    ELSE IF r.v.t = "dict" THEN Ok(r.v)
    ELSE Ok(PDict(<<>>))

dict_list_result(text, r) ==
    IF r.exc = "JSONDecodeError"
    THEN Ok(fallback_items(brace_groups(text, 1), 1, PDict(<<>>)))
    ELSE IF r.exc # "" THEN Ok(PDict(<<>>))
    ELSE IF r.v.t = "list" THEN Ok(merge_items(r.v.e, 1, PDict(<<>>)))
    ELSE IF r.v.t = "dict" THEN Ok(r.v)
    ELSE Ok(PDict(<<>>))

\* not text or pd.isna(text) for a cell
cell_missing(cell) ==
    \/ ~notna(cell)
    \/ cell.k = "str" /\ cell.s = <<>>
    \/ cell.k = "int" /\ cell.n = 0

\* parse_dict_list from line 36 on, for the substituted text
dict_literal(text) ==
    dict_list_result(text, json_loads(ReplaceChar(Strip(text), "'", "\"")))

parse_dict_list(cell, env) ==
    IF cell_missing(cell) THEN Ok(PDict(<<>>))
    ELSE dict_literal(replace_env_vars(CellStr(cell), env))

\* parse_headers: the text is substituted here and once more in parse_dict_list
parse_headers(cell, env) ==
    IF cell_missing(cell) THEN Ok(PDict(<<>>))
    ELSE parse_dict_list(Txt(replace_env_vars(CellStr(cell), env)), env)

\* lines 87-93, r being what json.loads gave
json_body_result(r) == IF r.exc # "" THEN Ok(None) ELSE Ok(r.v)

parse_json_body(cell, env) ==
    IF cell_missing(cell) THEN Ok(None)
    ELSE json_body_result(json_loads(replace_env_vars(CellStr(cell), env)))

(***************************************************************************)
(* APITestFramework.execute_test_case                                      *)
(***************************************************************************)
\* f"{excel_sheet_name}::{test_name}"
full_test_name(excel_sheet_name, test_name) == excel_sheet_name \o <<":", ":">> \o test_name

\* the result as it is created (lines 49-58)
new_detailed_result(test_name, cyc) ==
    [test_name |-> test_name, status |-> "Skipped", actual_code |-> NA,
     body_validation |-> "N/A", header_validation |-> "N/A", details |-> <<>>,
     elapsed_time_ms |-> NA, cycle |-> cyc]

\* pd.isna(api_path_raw) or str(api_path_raw).strip() == ''
api_path_missing_onlyNaN(test_case) == ~notna(test_case.api_path)

api_path_missing(test_case) ==
    ~notna(test_case.api_path) \/ Strip(CellStr(test_case.api_path)) = <<>>

\* the except branch (lines 125-135): the status by the module of the exception
on_exception_unknownStatus(detailed_result, from_requests) ==
    IF from_requests
    THEN [detailed_result EXCEPT !.status = "Failed",
                                 !.details = @ \o <<[d |-> "RequestError"]>>]
    ELSE [detailed_result EXCEPT !.status = "Unknown",
                                 !.details = @ \o <<[d |-> "UnexpectedError"]>>]

on_exception_alwaysFailed(detailed_result, from_requests) ==
    [detailed_result EXCEPT !.status = "Failed",
                            !.details = @ \o <<[d |-> "RequestError"]>>]

on_exception(detailed_result, from_requests) ==
    IF from_requests
    THEN [detailed_result EXCEPT !.status = "Failed",
                                 !.details = @ \o <<[d |-> "RequestError"]>>]
    ELSE [detailed_result EXCEPT !.status = "Error",
                                 !.details = @ \o <<[d |-> "UnexpectedError"]>>]

\* lines 97-119, where validation_results = validate_response(...) has
\* given v: the result and the dict afterwards
after_validation(test_case, detailed_result, resp, env, v) ==
    LET with_code == [detailed_result EXCEPT !.actual_code = IntCell(resp.code),
                                             !.elapsed_time_ms = IntCell(resp.elapsed)]
    IN  IF v.raised THEN [result |-> on_exception(with_code, FALSE), env |-> env]
        ELSE [result |-> [with_code EXCEPT
                             !.body_validation = v.body_validation,
                             !.header_validation = v.header_validation,
                             !.details = v.details,
                             !.status = IF v.test_passed_validations THEN "Passed"
                                        ELSE "Failed"]
                         @@ [test_passed_validations |-> v.test_passed_validations],
              env |-> IF notna(test_case.action)
                      THEN execute_action(CellStr(test_case.action),
                                          api_result_data(resp), env)
                      ELSE env]

\* the try block after a response has come back (lines 96-119): the result
\* and the dict afterwards
on_response_actionIfPassed(test_case, detailed_result, resp, env) ==
    LET with_code == [detailed_result EXCEPT !.actual_code = IntCell(resp.code),
                                             !.elapsed_time_ms = IntCell(resp.elapsed)]
        v == validate_response(test_case, resp, env)
    IN  IF v.raised THEN [result |-> on_exception(with_code, FALSE), env |-> env]
        ELSE [result |-> [with_code EXCEPT
                             !.body_validation = v.body_validation,
                             !.header_validation = v.header_validation,
                             !.details = v.details,
                             !.status = IF v.test_passed_validations THEN "Passed"
                                        ELSE "Failed"]
                         @@ [test_passed_validations |-> v.test_passed_validations],
              env |-> IF notna(test_case.action) /\ v.test_passed_validations
                      THEN execute_action(CellStr(test_case.action),
                                          api_result_data(resp), env)
                      ELSE env]

on_response(test_case, detailed_result, resp, env) ==
    after_validation(test_case, detailed_result, resp, env,
                     validate_response(test_case, resp, env))

\* the arguments of a call of execute_request that was not made
NoRequest == [k |-> "none"]

\* lines 79-81: what the parsers give for the cells of the row
parsed_request(test_case, env) ==
    [query_params |-> parse_dict_list(test_case.query_param, env),
     headers |-> parse_headers(test_case.inject_header, env),
     body |-> parse_json_body(test_case.body, env)]

\* one of the parsers raised an exception
request_raised(req) ==
    req.query_params.exc # "" \/ req.headers.exc # "" \/ req.body.exc # ""

\* the try block from line 83 on, with the except branches: req is what the
\* parsers gave and outcome what execute_request does with it
after_parsing(test_case, detailed_result, env, outcome, api_path, req) ==
    IF request_raised(req)
    THEN [result |-> on_exception(detailed_result, FALSE), env |-> env, sent |-> FALSE,
          url |-> api_path, request |-> NoRequest]
    ELSE IF outcome.k = "response"
    THEN on_response(test_case, detailed_result, outcome, env)
         @@ [sent |-> TRUE, url |-> api_path,
             request |-> [k |-> "request", query_params |-> req.query_params.v,
                          headers |-> req.headers.v, body |-> req.body.v]]
    ELSE [result |-> on_exception(detailed_result, outcome.k = "requests_error"),
          env |-> env, sent |-> TRUE, url |-> api_path,
          request |-> [k |-> "request", query_params |-> req.query_params.v,
                       headers |-> req.headers.v, body |-> req.body.v]]

\* the whole call for an outcome of the request executor: the result that is
\* returned, the dict afterwards and the URL that was requested
execute_test_case(test_case, excel_sheet_name, cyc, env, outcome) ==
    LET test_name == CellStr(test_case.test_case_name)
        detailed_result == new_detailed_result(test_name, cyc)
    IN  IF api_path_missing(test_case)
        THEN [result |-> [detailed_result EXCEPT !.details = <<[d |-> "ApiPathMissing"]>>],
              env |-> env, sent |-> FALSE, url |-> <<>>, request |-> NoRequest]
        ELSE after_parsing(test_case, detailed_result, env, outcome,
                           replace_env_vars(CellStr(test_case.api_path), env),
                           parsed_request(test_case, env))

\* self.cycle_results[full_test_name].append(detailed_result) on a defaultdict(list)
append_result_overwrite(cr, key, detailed_result) ==
    [k \in DOMAIN cr \cup {key} |-> IF k = key THEN <<detailed_result>> ELSE cr[k]]

append_result(cr, key, detailed_result) ==
    [k \in DOMAIN cr \cup {key} |->
        IF k = key
        THEN (IF key \in DOMAIN cr THEN cr[key] ELSE <<>>) \o <<detailed_result>>
        ELSE cr[k]]

(***************************************************************************)
(* Python numbers: int and float (IEEE 754 binary64, round to nearest, ties *)
(* to even).  The significand of a float has 53 bits, more than an integer *)
(* of the model checker holds, so it is kept as a sequence of digits.      *)
(***************************************************************************)
BigBits == 13

BigBase == 8192     \* 2^BigBits

\* a natural number is the sequence of its digits in base BigBase, the lowest
\* first, without leading zeros: <<>> is 0
RECURSIVE BigTrim(_)
BigTrim(a) ==
    IF a # <<>> /\ a[Len(a)] = 0 THEN BigTrim(SubSeq(a, 1, Len(a) - 1)) ELSE a

RECURSIVE BigOfInt(_)
BigOfInt(n) == IF n = 0 THEN <<>> ELSE <<n % BigBase>> \o BigOfInt(n \div BigBase)

\* the value of a number that is below 2^31
RECURSIVE BigToInt(_)
BigToInt(a) == IF a = <<>> THEN 0 ELSE a[1] + BigBase * BigToInt(Tail(a))

BigDigit(a, i) == IF i <= Len(a) THEN a[i] ELSE 0

RECURSIVE BigAddFrom(_, _, _, _)
BigAddFrom(a, b, i, carry) ==
    IF i > Len(a) /\ i > Len(b) THEN (IF carry = 0 THEN <<>> ELSE <<carry>>)
    ELSE <<(BigDigit(a, i) + BigDigit(b, i) + carry) % BigBase>>
         \o BigAddFrom(a, b, i + 1, (BigDigit(a, i) + BigDigit(b, i) + carry) \div BigBase)

BigAdd(a, b) == BigAddFrom(a, b, 1, 0)

\* a * k for 0 < k < 2^17
RECURSIVE BigMulFrom(_, _, _, _)
BigMulFrom(a, k, i, carry) ==
    IF i > Len(a) THEN BigOfInt(carry)
    ELSE <<(a[i] * k + carry) % BigBase>>
         \o BigMulFrom(a, k, i + 1, (a[i] * k + carry) \div BigBase)

BigMulSmall(a, k) == BigTrim(BigMulFrom(a, k, 1, 0))

\* the quotient digit d put above the digits of the quotient found so far
BigDivStep(low, d) == [q |-> Append(low.q, d), r |-> low.r]

\* long division of the digits i..1 of a by n < 2^17, r being the remainder
\* left by the digits above
RECURSIVE BigDivFrom(_, _, _, _)
BigDivFrom(a, n, i, r) ==
    IF i = 0 THEN [q |-> <<>>, r |-> r]
    ELSE BigDivStep(BigDivFrom(a, n, i - 1, (r * BigBase + a[i]) % n),
                    (r * BigBase + a[i]) \div n)

BigTrimQ(qr) == [q |-> BigTrim(qr.q), r |-> qr.r]

\* quotient and remainder of a by n
BigDivSmall(a, n) == BigTrimQ(BigDivFrom(a, n, Len(a), 0))

RECURSIVE BigCmpFrom(_, _, _)
BigCmpFrom(a, b, i) ==
    IF i = 0 THEN 0
    ELSE IF a[i] < b[i] THEN -1
    ELSE IF a[i] > b[i] THEN 1
    ELSE BigCmpFrom(a, b, i - 1)

\* -1, 0, 1 as a is below, equal to, above b
BigCmp(a, b) ==
    IF Len(a) < Len(b) THEN -1
    ELSE IF Len(a) > Len(b) THEN 1
    ELSE BigCmpFrom(a, b, Len(a))

\* int.bit_length()
RECURSIVE IntBits(_)
IntBits(n) == IF n = 0 THEN 0 ELSE 1 + IntBits(n \div 2)

BigBitLen(a) == IF a = <<>> THEN 0 ELSE BigBits * (Len(a) - 1) + IntBits(a[Len(a)])

RECURSIVE Pow2(_)
Pow2(k) == IF k = 0 THEN 1 ELSE 2 * Pow2(k - 1)

\* a * 2^s
BigShl(a, s) ==
    IF a = <<>> THEN <<>>
    ELSE [i \in 1..(s \div BigBits) |-> 0] \o BigMulSmall(a, Pow2(s % BigBits))

\* quotient and remainder of a by 2^s
BigShr(a, s) ==
    [q |-> BigDivSmall(SubSeq(a, (s \div BigBits) + 1, Len(a)), Pow2(s % BigBits)).q,
     r |-> BigTrim([i \in 1..((s \div BigBits) + 1) |->
                       IF i <= s \div BigBits THEN BigDigit(a, i)
                       ELSE BigDigit(a, i) % Pow2(s % BigBits)])]

\* the remainder r of a division by 2 * half sends the quotient q up: it is
\* above the half, or it is the half and q is odd or more was cut off before
RoundsUp(q, r, half, sticky) ==
    \/ BigCmp(r, half) = 1
    \/ BigCmp(r, half) = 0 /\ (sticky \/ BigDigit(q, 1) % 2 = 1)

\* the float m * 2^e: m is 0 or has 53 bits
FloatCell(m, e) == [k |-> "float", m |-> m, e |-> e]

\* a significand that the rounding has carried to 2^53
float_carried(m, e) ==
    IF BigBitLen(m) = 54 THEN FloatCell(BigShr(m, 1).q, e + 1) ELSE FloatCell(m, e)

float_rounded(qr, half, e, sticky) ==
    IF RoundsUp(qr.q, qr.r, half, sticky)
    THEN float_carried(BigAdd(qr.q, <<1>>), e)
    ELSE FloatCell(qr.q, e)

\* the float nearest to m * 2^e, ties to even; sticky tells that the exact
\* value is above m * 2^e by less than 2^e (m has 55 bits or more then)
round_float(m, e, sticky) ==
    IF m = <<>> THEN FloatCell(<<>>, 0)
    ELSE IF BigBitLen(m) <= 53
    THEN FloatCell(BigShl(m, 53 - BigBitLen(m)), e - (53 - BigBitLen(m)))
    ELSE float_rounded(BigShr(m, BigBitLen(m) - 53), BigShl(<<1>>, BigBitLen(m) - 54),
                       e + (BigBitLen(m) - 53), sticky)

\* float(n) for an int n >= 0, and a float as it is
as_float(x) == IF x.k = "int" THEN round_float(BigOfInt(x.n), 0, FALSE) ELSE x

\* a + b for floats a, b >= 0
float_add(a, b) ==
    IF a.m = <<>> THEN b
    ELSE IF b.m = <<>> THEN a
    ELSE IF a.e >= b.e THEN round_float(BigAdd(BigShl(a.m, a.e - b.e), b.m), b.e, FALSE)
    ELSE round_float(BigAdd(a.m, BigShl(b.m, b.e - a.e)), a.e, FALSE)

\* the quotient by n with two bits more than a float holds
float_quotient(qr, e) == round_float(qr.q, e, qr.r # 0)

\* a / n for a float a >= 0 and an int n > 0
float_div(a, n) ==
    float_quotient(BigDivSmall(BigShl(a.m, IntBits(n) + 2), n), a.e - (IntBits(n) + 2))

\* a * k for a float a >= 0 and an int k > 0
float_mul(a, k) == round_float(BigMulSmall(a.m, k), a.e, FALSE)

\* a <= b for floats a, b >= 0
float_le(a, b) ==
    IF a.m = <<>> THEN TRUE
    ELSE IF b.m = <<>> THEN FALSE
    ELSE IF a.e # b.e THEN a.e < b.e
    ELSE BigCmp(a.m, b.m) <= 0

\* x + y, x / n and x <= y for numbers (int or float) that are not negative:
\* int + int is an int, every other sum and every quotient is a float
num_add(x, y) ==
    IF x.k = "int" /\ y.k = "int" THEN IntCell(x.n + y.n)
    ELSE float_add(as_float(x), as_float(y))

num_div(x, n) == float_div(as_float(x), n)

num_le(x, y) == float_le(as_float(x), as_float(y))

\* the integer nearest to 10 * a, ties to even, for a float a >= 0
float_tenths(a) ==
    IF a.e >= 0 THEN BigToInt(BigShl(BigMulSmall(a.m, 10), a.e))
    ELSE IF RoundsUp(BigShr(BigMulSmall(a.m, 10), 0 - a.e).q,
                     BigShr(BigMulSmall(a.m, 10), 0 - a.e).r,
                     BigShl(<<1>>, (0 - a.e) - 1), FALSE)
    THEN BigToInt(BigShr(BigMulSmall(a.m, 10), 0 - a.e).q) + 1
    ELSE BigToInt(BigShr(BigMulSmall(a.m, 10), 0 - a.e).q)

\* f"{a:.1f}" for a float a >= 0
format_1f(a) ==
    IntToText(float_tenths(a) \div 10) \o <<".">> \o IntToText(float_tenths(a) % 10)

(***************************************************************************)
(* APITestFramework._aggregate_cycle_results: the counts, the statuses and *)
(* the extreme times of the aggregated record                              *)
(***************************************************************************)
\* key.startswith(prefix)
StartsWith(text, prefix) ==
    Len(text) >= Len(prefix) /\ SubSeq(text, 1, Len(prefix)) = prefix

\* full_test_name.split("::", 1)[1] for a key that holds "::"
AfterFirstColons(key) ==
    LET i == CHOOSE k \in 1..(Len(key) - 1) :
                /\ key[k] = ":" /\ key[k + 1] = ":"
                /\ \A m \in 1..(k - 1) : ~(key[m] = ":" /\ key[m + 1] = ":")
    IN  SubSeq(key, i + 2, Len(key))

CountStatus(cycle_data, status) ==
    Cardinality({i \in 1..Len(cycle_data) : cycle_data[i].status = status})

\* response_times: the elapsed times that are numbers, in the order of the runs
ResponseTimes(cycle_data) ==
    SelectSeq([i \in 1..Len(cycle_data) |-> cycle_data[i].elapsed_time_ms],
              LAMBDA c : c.k \in {"int", "float"})

\* min(times): the first of the smallest elements
min_of(times) ==
    times[CHOOSE i \in 1..Len(times) :
             /\ \A j \in 1..Len(times) : num_le(times[i], times[j])
             /\ \A j \in 1..(i - 1) : ~num_le(times[j], times[i])]

\* max(times): the first of the largest elements
max_of(times) ==
    times[CHOOSE i \in 1..Len(times) :
             /\ \A j \in 1..Len(times) : num_le(times[j], times[i])
             /\ \A j \in 1..(i - 1) : ~num_le(times[i], times[j])]

\* sum(times) from the k-th element on, acc being the sum so far: the
\* additions are made from left to right, each rounded (for three equal
\* floats the compensated sum of Python 3.12 gives the same float)
RECURSIVE sum_from(_, _, _)
sum_from(times, k, acc) ==
    IF k > Len(times) THEN acc ELSE sum_from(times, k + 1, num_add(acc, times[k]))

sum_of(times) == sum_from(times, 1, IntCell(0))

\* x put into the sorted sequence data, after the elements that are not above it
RECURSIVE insert_sorted(_, _)
insert_sorted(data, x) ==
    IF data = <<>> THEN <<x>>
    ELSE IF num_le(data[Len(data)], x) THEN Append(data, x)
    ELSE Append(insert_sorted(SubSeq(data, 1, Len(data) - 1), x), data[Len(data)])

\* sorted(times) from the k-th element on
RECURSIVE sorted_from(_, _, _)
sorted_from(times, k, acc) ==
    IF k > Len(times) THEN acc ELSE sorted_from(times, k + 1, insert_sorted(acc, times[k]))

\* statistics.median of the sorted data: the middle element, or the mean of
\* the two middle elements
median_sorted(data) ==
    IF Len(data) % 2 = 1 THEN data[(Len(data) \div 2) + 1]
    ELSE num_div(num_add(data[Len(data) \div 2], data[(Len(data) \div 2) + 1]), 2)

median_of(times) == median_sorted(sorted_from(times, 1, <<>>))

\* statistics.stdev(times) for two times or more: the value is not computed
StdevOf(times) == [k |-> "stdev", data |-> times]

\* lines 309-317: the five statistics, None without a response time
time_statistics(times) ==
    IF times = <<>>
    THEN [min_time_ms |-> NA, max_time_ms |-> NA, avg_time_ms |-> NA,
          median_time_ms |-> NA, std_dev_ms |-> NA]
    ELSE [min_time_ms |-> min_of(times),
          max_time_ms |-> max_of(times),
          avg_time_ms |-> num_div(sum_of(times), Len(times)),
          median_time_ms |-> median_of(times),
          std_dev_ms |-> IF Len(times) > 1 THEN StdevOf(times) ELSE IntCell(0)]

NAText == <<"N", "/", "A">>

\* f"{count / total_attempts * 100:.1f}%", "N/A" without attempts
rate_text_overRuns(count, total_attempts, cycles_run) ==
    IF cycles_run > 0
    THEN format_1f(float_mul(num_div(IntCell(count), cycles_run), 100)) \o <<"%">>
    ELSE NAText

rate_text(count, total_attempts, cycles_run) ==
    IF total_attempts > 0
    THEN format_1f(float_mul(num_div(IntCell(count), total_attempts), 100)) \o <<"%">>
    ELSE NAText

\* lines 329-344: the two rates of the counts
rates(passed, failed, errors, cycles_run) ==
    [failure_rate |-> rate_text(failed + errors, passed + failed + errors, cycles_run),
     success_rate |-> rate_text(passed, passed + failed + errors, cycles_run)]

\* lines 275-289 and 294-304: the name and the counts
counts(key, cycle_data) ==
    [test_name |-> AfterFirstColons(key),
     cycles_run |-> Len(cycle_data),
     passed_count |-> CountStatus(cycle_data, "Passed"),
     failed_count |-> CountStatus(cycle_data, "Failed"),
     error_count |-> CountStatus(cycle_data, "Error"),
     skipped_count |-> CountStatus(cycle_data, "Skipped"),
     last_status |-> cycle_data[Len(cycle_data)].status]

\* lines 319-327: the status by precedence
overall_status_last(c, cycle_data) == [status |-> cycle_data[Len(cycle_data)].status]

overall_status(c, cycle_data) ==
    [status |-> IF c.error_count > 0 THEN "Error"
                ELSE IF c.failed_count > 0 THEN "Failed"
                ELSE IF c.passed_count > 0 THEN "Passed"
                ELSE "Skipped"]

\* the aggregated record of the counts c
aggregated_of(c, cycle_data) ==
    c @@ overall_status(c, cycle_data)
      @@ time_statistics(ResponseTimes(cycle_data))
      @@ rates(c.passed_count, c.failed_count, c.error_count, c.cycles_run)

aggregated_result(key, cycle_data) == aggregated_of(counts(key, cycle_data), cycle_data)

\* self.results after _aggregate_cycle_results(sheet_name)
aggregate_cycle_results(sheet_name, cr, res) ==
    LET sheet_test_keys == {key \in DOMAIN cr : StartsWith(key, sheet_name \o <<":", ":">>)}
    IN  [key \in DOMAIN res \cup sheet_test_keys |->
            IF key \in sheet_test_keys THEN aggregated_result(key, cr[key]) ELSE res[key]]

(***************************************************************************)
(* APITestFramework.run_tests                                              *)
(***************************************************************************)
MaxCycles == 2      \* the cycles argument of the framework
MaxFaults == 1      \* exceptions of the request executor in one run

Sheet(name, rows, readable) == [name |-> name, rows |-> rows, readable |-> readable]

\* df.dropna(subset=['test_case_name']) followed by iterrows()
TestRows(sheet) == SelectSeq(sheet.rows, LAMBDA r : notna(r.test_case_name))

FailedOrError(status) == status \in {"Failed", "Error"}

\* $t = result.body.t
LoginStmts == <<[k |-> "assign", name |-> <<"t">>, sp |-> <<" ">>,
                 segs |-> <<KeySeg(BodyText), KeySeg(<<"t">>)>>]>>

\* $u = result.body.x; $t=result.code
MixedStmts == <<[k |-> "assign", name |-> <<"u">>, sp |-> <<" ">>,
                 segs |-> <<KeySeg(BodyText), KeySeg(<<"x">>)>>],
                [k |-> "assign", name |-> <<"t">>, sp |-> <<>>,
                 segs |-> <<KeySeg(CodeText)>>]>>

RLogin == Row(Txt(<<"n","1">>), Txt(<<"/","l">>), IntCell(200),
              Txt(ActionText(LoginStmts, <<";">>)))

\* contains(result.body.t, "x")
HasXCondition == <<"c","o","n","t","a","i","n","s","(","r","e","s","u","l","t",".","b","o","d","y",".","t",","," ","\"","x","\"",")">>

RUse == WithBody(Row(Txt(<<"n","2">>), Txt(<<"/","$","t">>), Txt(<<"2","0","0">>), NaN),
                 Txt(HasXCondition))

\* equal(result.body.t, $t)
BareVarCondition == <<"e","q","u","a","l","(","r","e","s","u","l","t",".","b","o","d","y",".","t",","," ","$","t",")">>

\* contains(result.code)
OneArgCondition == <<"c","o","n","t","a","i","n","s","(","r","e","s","u","l","t",".","c","o","d","e",")">>

RBroken == WithHeader(WithBody(Row(Txt(<<"n","4">>), Txt(<<"/","l">>), NaN, NaN),
                               Txt(BareVarCondition)),
                      Txt(OneArgCondition))

\* a row whose api_path is a blank, with an expected code, a body condition
\* and an action
RSkip == WithBody(Row(Txt(<<"n","3">>), Txt(<<" ">>), IntCell(200),
                      Txt(ActionText(LoginStmts, <<";">>))),
                  Txt(HasXCondition))

\* the same with an empty api_path cell
RNoPath == [RSkip EXCEPT !.api_path = NaN]

RDate == Row(Txt(<<"n","1">>), Txt(<<"/","l">>), DateCell,
             Txt(ActionText(LoginStmts, <<";">>)))

RMixed == Row(Txt(<<"n","2">>), Txt(<<"/","$","u">>), Txt(<<"x">>),
              Txt(ActionText(MixedStmts, <<";", " ">>)))

RNoName == Row(NaN, Txt(<<"/","l">>), NaN, NaN)

\* [{"q"}]: a group without "," and ":"
MalformedQuery == <<"[","{","\"","q","\"","}","]">>

\* {"h": "$t": the closing brace is missing
MalformedHeader == <<"{","\"","h","\"",":"," ","\"","$","t","\"">>

\* {"k": 1: the closing brace is missing
MalformedBody == <<"{","\"","k","\"",":"," ","1">>

\* a row whose query_param, inject_header and body are malformed
RMalformed == WithRequest(Row(Txt(<<"n","5">>), Txt(<<"/","l">>), IntCell(200), NaN),
                          Txt(MalformedQuery), Txt(MalformedHeader), Txt(MalformedBody))

\* the sheets after the Environment sheet: the setup sheet, then the test sheets
Workbooks ==
    {<<>>,
     <<Sheet(<<"S">>, <<RLogin>>, TRUE), Sheet(<<"A">>, <<RLogin, RUse>>, TRUE),
       Sheet(<<"B">>, <<RUse, RMalformed>>, TRUE)>>,
     <<Sheet(<<"S">>, <<RUse, RNoPath>>, TRUE), Sheet(<<"A">>, <<RNoName, RDate, RMixed>>, TRUE)>>,
     <<Sheet(<<"S">>, <<RLogin>>, FALSE), Sheet(<<"A">>, <<RUse>>, TRUE)>>,
     <<Sheet(<<"S">>, <<>>, TRUE), Sheet(<<"A">>, <<RUse>>, FALSE),
       Sheet(<<"B">>, <<RBroken, RMixed, RSkip, RUse>>, TRUE)>>}

Responses == {Response(200, BodyToken, 10), Response(404, BodyNested, 20)}

\* what the request executor can do on the next call
Outcomes == Responses \cup (IF faults < MaxFaults THEN {RequestsError, OtherError} ELSE {})

Init ==
    /\ workbook \in Workbooks
    /\ cycles \in 1..MaxCycles
    /\ environment_vars \in EnvsOver({<<"t">>}, {<<"o">>})
    /\ cycle_results = <<>>
    /\ results = <<>>
    /\ pc = "open"
    /\ sheet_idx = 0
    /\ cycle = 0
    /\ row_idx = 0
    /\ setup_success = TRUE
    /\ sheet_has_failures = FALSE
    /\ console = <<>>
    /\ faults = 0
    /\ log = <<>>
    /\ last = NoCall
    /\ fin = [env |-> environment_vars]
    /\ fout = [n |-> 0]

\* the effects of a call r = self.execute_test_case(test_case, sheet_name, cyc)
\* of the loops on the dict and on cycle_results, and the history of it
CallEffects(test_case, cyc, outcome, r) ==
    /\ environment_vars' = r.env
    /\ cycle_results' = append_result(cycle_results,
                            full_test_name(workbook[sheet_idx].name,
                                           CellStr(test_case.test_case_name)),
                            r.result)
    /\ faults' = IF r.sent /\ outcome.k # "response" THEN faults + 1 ELSE faults
    /\ log' = Append(log, [sheet |-> sheet_idx, cycle |-> cyc, row |-> row_idx + 1,
                           test_case |-> test_case, outcome |-> outcome,
                           sent |-> r.sent, url |-> r.url, request |-> r.request,
                           status |-> r.result.status,
                           env0 |-> environment_vars])
    /\ last' = [n |-> last.n + 1, env0 |-> environment_vars, result |-> r.result]

\* the outcomes to draw from: none is needed when no request is made
OutcomesFor(test_case) ==
    IF api_path_missing(test_case) THEN {[k |-> "none"]} ELSE Outcomes

\* run_tests up to the setup loop (lines 145-168)
OpenWorkbook ==
    /\ pc = "open"
    /\ IF Len(workbook) < 1
       THEN pc' = "done" /\ UNCHANGED <<sheet_idx, cycle, row_idx, setup_success>>
       ELSE IF ~workbook[1].readable
       THEN /\ pc' = "summary"
            /\ setup_success' = FALSE
            /\ UNCHANGED <<sheet_idx, cycle, row_idx>>
       ELSE /\ pc' = "setup"
            /\ sheet_idx' = 1
            /\ cycle' = 1
            /\ row_idx' = 0
            /\ UNCHANGED setup_success
    /\ UNCHANGED <<environment_vars, cycle_results, results, workbook, cycles,
                   sheet_has_failures, console, faults, log, last, fin, fout>>

SetupCase_noBreak ==
    /\ pc = "setup"
    /\ row_idx < Len(TestRows(workbook[sheet_idx]))
    /\ LET test_case == TestRows(workbook[sheet_idx])[row_idx + 1] IN
       \E outcome \in OutcomesFor(test_case) :
          \E r \in {execute_test_case(test_case, workbook[sheet_idx].name, 1,
                                       environment_vars, outcome)} :
              /\ CallEffects(test_case, 1, outcome, r)
              /\ row_idx' = row_idx + 1
              /\ IF FailedOrError(r.result.status)
                 THEN /\ setup_success' = FALSE
                      /\ UNCHANGED pc
                      /\ console' = Append(console, [msg |-> "setup_failed",
                                                     sheet |-> workbook[sheet_idx].name])
                 ELSE UNCHANGED <<setup_success, pc, console>>
    /\ UNCHANGED <<results, workbook, cycles, sheet_idx, cycle, sheet_has_failures, fin, fout>>

\* one turn of the setup loop (lines 171-179)
SetupCase ==
    /\ pc = "setup"
    /\ row_idx < Len(TestRows(workbook[sheet_idx]))
    /\ LET test_case == TestRows(workbook[sheet_idx])[row_idx + 1] IN
       \E outcome \in OutcomesFor(test_case) :
          \E r \in {execute_test_case(test_case, workbook[sheet_idx].name, 1,
                                       environment_vars, outcome)} :
              /\ CallEffects(test_case, 1, outcome, r)
              /\ row_idx' = row_idx + 1
              /\ IF FailedOrError(r.result.status)
                 THEN /\ setup_success' = FALSE
                      /\ pc' = "summary"
                      /\ console' = Append(console, [msg |-> "setup_failed",
                                                     sheet |-> workbook[sheet_idx].name])
                 ELSE UNCHANGED <<setup_success, pc, console>>
    /\ UNCHANGED <<results, workbook, cycles, sheet_idx, cycle, sheet_has_failures, fin, fout>>

\* the setup loop has run through (lines 184-190)
SetupEnd ==
    /\ pc = "setup"
    /\ row_idx = Len(TestRows(workbook[sheet_idx]))
    /\ pc' = "sheet"
    /\ sheet_idx' = 2
    /\ UNCHANGED <<environment_vars, cycle_results, results, workbook, cycles, cycle, row_idx,
                   setup_success, sheet_has_failures, console, faults, log, last, fin, fout>>

\* the next test sheet is read (lines 190-206), or there is none left
BeginSheet ==
    /\ pc = "sheet"
    /\ IF sheet_idx > Len(workbook)
       THEN /\ pc' = "summary"
            /\ UNCHANGED <<results, sheet_idx, cycle, row_idx, sheet_has_failures>>
       ELSE IF ~workbook[sheet_idx].readable
       THEN /\ results' = IF cycles > 1
                          THEN aggregate_cycle_results(workbook[sheet_idx].name,
                                                       cycle_results, results)
                          ELSE results
            /\ sheet_idx' = sheet_idx + 1
            /\ UNCHANGED <<pc, cycle, row_idx, sheet_has_failures>>
       ELSE /\ pc' = "main"
            /\ cycle' = 1
            /\ row_idx' = 0
            /\ sheet_has_failures' = FALSE
            /\ UNCHANGED <<results, sheet_idx>>
    /\ UNCHANGED <<environment_vars, cycle_results, workbook, cycles, setup_success, console,
                   faults, log, last, fin, fout>>

MainCase_stopOnFailure ==
    /\ pc = "main"
    /\ row_idx < Len(TestRows(workbook[sheet_idx]))
    /\ LET test_case == TestRows(workbook[sheet_idx])[row_idx + 1] IN
       \E outcome \in OutcomesFor(test_case) :
          \E r \in {execute_test_case(test_case, workbook[sheet_idx].name, cycle,
                                       environment_vars, outcome)} :
              /\ CallEffects(test_case, cycle, outcome, r)
              /\ row_idx' = row_idx + 1
              /\ sheet_has_failures' = IF FailedOrError(r.result.status) THEN TRUE
                                       ELSE sheet_has_failures
              /\ pc' = IF FailedOrError(r.result.status) THEN "sheet_end" ELSE pc
    /\ UNCHANGED <<results, workbook, cycles, sheet_idx, cycle, setup_success, console,
                   fin, fout>>

\* one turn of the loop over the rows of a test sheet (lines 209-219)
MainCase ==
    /\ pc = "main"
    /\ row_idx < Len(TestRows(workbook[sheet_idx]))
    /\ LET test_case == TestRows(workbook[sheet_idx])[row_idx + 1] IN
       \E outcome \in OutcomesFor(test_case) :
          \E r \in {execute_test_case(test_case, workbook[sheet_idx].name, cycle,
                                       environment_vars, outcome)} :
              /\ CallEffects(test_case, cycle, outcome, r)
              /\ row_idx' = row_idx + 1
              /\ sheet_has_failures' = IF FailedOrError(r.result.status) THEN TRUE
                                       ELSE sheet_has_failures
    /\ UNCHANGED <<results, workbook, cycles, pc, sheet_idx, cycle, setup_success, console,
                   fin, fout>>

\* the rows of a cycle have run (lines 202-207 and 222-226)
EndCycle ==
    /\ pc = "main"
    /\ row_idx = Len(TestRows(workbook[sheet_idx]))
    /\ IF cycle < cycles
       THEN /\ cycle' = cycle + 1
            /\ row_idx' = 0
            /\ sheet_has_failures' = FALSE
            /\ UNCHANGED pc
       ELSE /\ pc' = "sheet_end"
            /\ UNCHANGED <<cycle, row_idx, sheet_has_failures>>
    /\ UNCHANGED <<environment_vars, cycle_results, results, workbook, cycles, sheet_idx,
                   setup_success, console, faults, log, last, fin, fout>>

\* after the cycles of a sheet (lines 228-249)
EndSheet ==
    /\ pc = "sheet_end"
    /\ console' = IF ~sheet_has_failures /\ TestRows(workbook[sheet_idx]) # <<>>
                  THEN Append(console, [msg |-> "all_passed",
                                        sheet |-> workbook[sheet_idx].name])
                  ELSE IF TestRows(workbook[sheet_idx]) = <<>>
                  THEN Append(console, [msg |-> "no_test_cases",
                                        sheet |-> workbook[sheet_idx].name])
                  ELSE console
    /\ results' = IF cycles > 1
                  THEN aggregate_cycle_results(workbook[sheet_idx].name, cycle_results, results)
                  ELSE results
    /\ sheet_idx' = sheet_idx + 1
    /\ pc' = "sheet"
    /\ UNCHANGED <<environment_vars, cycle_results, workbook, cycles, cycle, row_idx,
                   setup_success, sheet_has_failures, faults, log, last, fin, fout>>

\* print_summary and return self.results (lines 251-254)
Finish ==
    /\ pc = "summary"
    /\ pc' = "done"
    /\ fout' = [n |-> 1, returned |-> results]
    /\ UNCHANGED <<environment_vars, cycle_results, results, workbook, cycles, sheet_idx,
                   cycle, row_idx, setup_success, sheet_has_failures, console, faults, log,
                   last, fin>>

Next ==
    \/ OpenWorkbook
    \/ SetupCase
    \/ SetupEnd
    \/ BeginSheet
    \/ MainCase
    \/ EndCycle
    \/ EndSheet
    \/ Finish

Spec == Init /\ [][Next]_vars

(***************************************************************************)
(* Properties of the run                                                   *)
(***************************************************************************)
Statuses == {"Passed", "Failed", "Error", "Skipped"}

\* the number of per-run results in cycle_results
RECURSIVE TotalResults(_)
TotalResults(cr) ==
    IF DOMAIN cr = {} THEN 0
    ELSE LET key == CHOOSE x \in DOMAIN cr : TRUE
         IN  Len(cr[key]) + TotalResults([x \in DOMAIN cr \ {key} |-> cr[x]])

\* the key of call i of the log
LogKey(i) == full_test_name(workbook[log[i].sheet].name,
                            CellStr(log[i].test_case.test_case_name))

\* C1: every call of execute_test_case returns a per-run result with a status
\* among Passed, Failed, Error and Skipped, and records exactly that one
\* result in cycle_results, whatever the request executor or the validator
\* did: the results recorded are as many as the calls made.
C1_OneTerminalResultPerCall ==
    /\ TotalResults(cycle_results) = Len(log)
    /\ last.n = Len(log)
    /\ \A key \in DOMAIN cycle_results :
          \A i \in 1..Len(cycle_results[key]) : cycle_results[key][i].status \in Statuses
    /\ Len(log) > 0 =>
          /\ last.result.status \in Statuses
          /\ log[Len(log)].status = last.result.status
          /\ LogKey(Len(log)) \in DOMAIN cycle_results
          /\ cycle_results[LogKey(Len(log))][Len(cycle_results[LogKey(Len(log))])] = last.result

\* a run with calls that ended in each of the four statuses, one of them by
\* an exception of the validator and one by an exception of the executor
C1_Witness ==
    /\ \A st \in Statuses : \E i \in 1..Len(log) : log[i].status = st
    /\ \E i \in 1..Len(log) : log[i].outcome.k = "response" /\ log[i].status = "Error"
    /\ \E i \in 1..Len(log) : log[i].outcome.k = "requests_error"

\* the per-cycle runs a sheet gets: one for the setup sheet
CyclesOf(sheet) == IF sheet = 1 THEN 1 ELSE cycles

\* C2: a setup test case that ends Failed or Error is the last test case of
\* the run; a test case of an ordinary sheet runs only after every setup test
\* case has run, none of them Failed or Error.
C2_SetupFailureAborts ==
    /\ \A i \in 1..Len(log) :
          (log[i].sheet = 1 /\ FailedOrError(log[i].status)) =>
              /\ i = Len(log)
              /\ pc \in {"summary", "done"}
              /\ ~setup_success
    /\ \A j \in 1..Len(log) :
          log[j].sheet >= 2 =>
              /\ workbook[1].readable
              /\ \A r \in 1..Len(TestRows(workbook[1])) :
                    \E i \in 1..(j - 1) :
                        /\ log[i].sheet = 1
                        /\ log[i].row = r
                        /\ ~FailedOrError(log[i].status)

\* the run is over after the first of two setup test cases failed, with a
\* test sheet left unrun
C2_Witness ==
    /\ pc = "done"
    /\ Len(log) = 1
    /\ log[1].sheet = 1
    /\ FailedOrError(log[1].status)
    /\ Len(TestRows(workbook[1])) > 1
    /\ Len(workbook) > 1

\* the statements of the action texts of the workbooks
KnownActions == {[stmts |-> LoginStmts, sep |-> <<";">>],
                 [stmts |-> MixedStmts, sep |-> <<";", " ">>]}

StmtsOfAction(text) ==
    (CHOOSE a \in KnownActions : ActionText(a.stmts, a.sep) = text).stmts

\* the indexes of the statements that assign a resolved value to name
ResolvingIn(stmts, result, name) ==
    {k \in 1..Len(stmts) :
        /\ stmts[k].k = "assign"
        /\ stmts[k].name = name
        /\ _get_nested_value(result, PathText(stmts[k].segs)) # None}

\* the Environment Store after the statements: each name with a resolved
\* assignment is bound to the value of the last one, the rest is as before
ExpectedEnv(env0, stmts, result) ==
    LET names == {stmts[k].name : k \in {m \in 1..Len(stmts) : stmts[m].k = "assign"}}
        written == {n \in names : ResolvingIn(stmts, result, n) # {}}
        lastOf(n) == CHOOSE k \in ResolvingIn(stmts, result, n) :
                        \A m \in ResolvingIn(stmts, result, n) : m <= k
    IN  [n \in DOMAIN env0 \cup written |->
            IF n \in written
            THEN value_str(_get_nested_value(result, PathText(stmts[lastOf(n)].segs)))
            ELSE env0[n]]

\* call e of the log got a response, validated it and declares an action
ActionDue(e) ==
    /\ e.sent
    /\ e.outcome.k = "response"
    /\ notna(e.test_case.action)
    /\ e.status \in {"Passed", "Failed"}

\* the Environment Store call e of the log leaves behind
EnvAfterCall(e) ==
    IF ActionDue(e)
    THEN ExpectedEnv(e.env0, StmtsOfAction(CellStr(e.test_case.action)),
                     api_result_data(e.outcome))
    ELSE e.env0

\* call b is the call that comes after call a in the order of the run
ComesNext(a, b) ==
    \/ /\ b.sheet = a.sheet /\ b.cycle = a.cycle /\ b.row = a.row + 1
    \/ /\ b.sheet = a.sheet /\ b.cycle = a.cycle + 1 /\ b.row = 1
       /\ a.row = Len(TestRows(workbook[a.sheet]))
    \/ /\ b.sheet > a.sheet /\ b.cycle = 1 /\ b.row = 1
       /\ a.row = Len(TestRows(workbook[a.sheet]))
       /\ a.cycle = CyclesOf(a.sheet)

ConditionRaised(e, condition) ==
    /\ e.outcome.k = "response"
    /\ e.sent
    /\ ~condition_missing(condition)
    /\ eval_outcome(CellStr(condition), api_result_data(e.outcome), e.env0).exc # ""

\* C13: a call whose body or header condition raised while it was evaluated
\* has the status Failed, with that validation Failed, and never Error; and
\* when the run is over, the rows after it in its test sheet have run in the
\* same cycle.
C13_RaisingConditionFails ==
    /\ \A i \in 1..Len(log) :
          (\/ ConditionRaised(log[i], log[i].test_case.expect_response_body)
           \/ ConditionRaised(log[i], log[i].test_case.expect_response_header)) =>
              /\ log[i].status = "Failed"
              /\ (log[i].sheet >= 2 /\ pc \in {"summary", "done"}) =>
                    \A r \in (log[i].row + 1)..Len(TestRows(workbook[log[i].sheet])) :
                        \E j \in (i + 1)..Len(log) :
                            /\ log[j].sheet = log[i].sheet
                            /\ log[j].cycle = log[i].cycle
                            /\ log[j].row = r
    /\ Len(log) > 0 =>
          LET e == log[Len(log)]
          IN  /\ ConditionRaised(e, e.test_case.expect_response_body) =>
                    last.result.body_validation = "Failed"
              /\ ConditionRaised(e, e.test_case.expect_response_header) =>
                    last.result.header_validation = "Failed"

\* the body condition equal(result.body.t, $t) of the first row of a test
\* sheet raised (t is bound to o, a name that the context does not hold), the
\* header condition raised too, the call ended Failed and the next row ran
C13_Witness ==
    /\ pc = "done"
    /\ \E i \in 1..Len(log) :
          /\ log[i].test_case = RBroken
          /\ log[i].row = 1
          /\ log[i].outcome.k = "response"
          /\ DOMAIN log[i].env0 = {<<"t">>}
          /\ log[i].env0[<<"t">>] = <<"o">>
          /\ eval_outcome(BareVarCondition, api_result_data(log[i].outcome), log[i].env0)
                = Raise("NameError")
          /\ ConditionRaised(log[i], RBroken.expect_response_header)
          /\ log[i].status = "Failed"
          /\ \E j \in (i + 1)..Len(log) :
                log[j].sheet = log[i].sheet /\ log[j].cycle = log[i].cycle /\ log[j].row = 2

\* C18: when the run is over and the setup has succeeded, the mapping that
\* run_tests returns holds a record under <sheet>::<name> for every test case
\* that ran, of the setup sheet and of the test sheets, for every number of
\* cycles.
C18_ResultsHoldEveryTestCase ==
    (pc = "done" /\ fout.n = 1 /\ setup_success) =>
        \A i \in 1..Len(log) : LogKey(i) \in DOMAIN fout.returned

(***************************************************************************)
(* The aggregator exercised on its own                                     *)
(***************************************************************************)
MaxRuns == 3        \* per-run results of one test case

\* 12.3, the float that response.elapsed.total_seconds() * 1000 is for a
\* response that took 12300 microseconds: 6924284427082138 * 2^-49
Elapsed12300us == FloatCell(<<6554, 3276, 1638, 4403, 1>>, -49)

\* the statuses and elapsed times a per-run result leaves execute_test_case with
AggRuns ==
    {[status |-> "Passed", elapsed |-> IntCell(e)] : e \in {10, 20}}
    \cup {[status |-> st, elapsed |-> IntCell(e)] : st \in {"Failed", "Error"}, e \in {10, 20}}
    \cup {[status |-> st, elapsed |-> NA] : st \in {"Failed", "Error", "Skipped"}}
    \cup {[status |-> st, elapsed |-> Elapsed12300us] : st \in {"Passed", "Failed"}}

AggSheet == <<"A">>

AggName == <<"n", "1">>

\* the per-run results of the runs, run i in cycle i
CycleData(runs) ==
    [i \in 1..Len(runs) |->
        [new_detailed_result(AggName, i) EXCEPT !.status = runs[i].status,
                                                !.elapsed_time_ms = runs[i].elapsed]]

InitAgg ==
    /\ RunnerIdle
    /\ pc = "agg"
    /\ environment_vars = <<>>
    /\ fin \in [runs : SeqsUpTo(AggRuns, MaxRuns) \ {<<>>}]
    /\ fout = [n |-> 0]

\* self._aggregate_cycle_results(sheet_name) with the runs under one key
Aggregate ==
    /\ pc = "agg"
    /\ fout.n = 0
    /\ LET key == full_test_name(AggSheet, AggName)
           cr == [k \in {key} |-> CycleData(fin.runs)]
       IN  fout' = [n |-> 1, key |-> key,
                    results |-> aggregate_cycle_results(AggSheet, cr, <<>>)]
    /\ UNCHANGED <<environment_vars, pc, fin>>
    /\ UNCHANGED runnerVars

NextAgg == Aggregate

SpecAgg == InitAgg /\ [][NextAgg]_vars

\* the statuses among the runs
RunStatuses(runs) == {runs[i].status : i \in 1..Len(runs)}

\* C19: the status of the aggregated record is Error if a run is Error, else
\* Failed if a run is Failed, else Passed if a run is Passed, else Skipped: it
\* is decided by which statuses occur among the runs, not by their order.
C19_StatusPrecedence ==
    (pc = "agg" /\ fout.n = 1) =>
        LET S == RunStatuses(fin.runs) IN
        fout.results[fout.key].status =
            (IF "Error" \in S THEN "Error"
             ELSE IF "Failed" \in S THEN "Failed"
             ELSE IF "Passed" \in S THEN "Passed"
             ELSE "Skipped")

\* an Error run followed by a Failed and a Passed run is aggregated to Error
C19_Witness ==
    /\ pc = "agg"
    /\ fout.n = 1
    /\ Len(fin.runs) = 3
    /\ fin.runs[1].status = "Error"
    /\ fin.runs[2].status = "Failed"
    /\ fin.runs[3].status = "Passed"
    /\ fout.results[fout.key].status = "Error"

\* the test sheets whose cycles have all run
SheetsDone ==
    {s \in 2..Len(workbook) :
        /\ workbook[s].readable
        /\ \/ pc \in {"summary", "done"} /\ setup_success
           \/ pc \in {"sheet", "main", "sheet_end"} /\ s < sheet_idx
           \/ pc = "sheet_end" /\ s = sheet_idx}

\* C20: once the cycles of a test sheet have run, each of its test cases has
\* as many per-run results as there are cycles, and its aggregated record,
\* where there is one, counts that many runs and that many statuses.
C20_OneResultPerCycle ==
    \A s \in SheetsDone :
        \A r \in 1..Len(TestRows(workbook[s])) :
            LET key == full_test_name(workbook[s].name,
                                      CellStr(TestRows(workbook[s])[r].test_case_name))
            IN  /\ key \in DOMAIN cycle_results
                /\ Len(cycle_results[key]) = cycles
                /\ key \in DOMAIN results =>
                      /\ results[key].cycles_run = cycles
                      /\ results[key].passed_count + results[key].failed_count
                           + results[key].error_count + results[key].skipped_count = cycles

(***************************************************************************)
(* The predicates exercised on their own                                   *)
(***************************************************************************)
NullText == <<"n","u","l","l">>

\* operands: None, true, false, 1, 5, "5", "+5 ", "x", "", "null", [5, None],
\* {"a": "x"} and 10**309
PredValues ==
    {None, PBool(TRUE), PBool(FALSE), PNum(1), PNum(5),
     PStr(<<"5">>), PStr(<<"+", "5", " ">>), PStr(<<"x">>), PStr(<<>>), PStr(NullText),
     PList(<<PNum(5), None>>), PDict(<< <<<<"a">>, PStr(<<"x">>)>> >>), PHuge}

InitPred ==
    /\ RunnerIdle
    /\ pc = "pred"
    /\ environment_vars = <<>>
    /\ fin \in [data : PredValues, value : PredValues]
    /\ fout = [n |-> 0]

\* the four functions of the context applied to the operands
ApplyPredicates ==
    /\ pc = "pred"
    /\ fout.n = 0
    /\ fout' = [n |-> 1,
                contains |-> contains(fin.data, fin.value),
                equal |-> equal(fin.data, fin.value),
                greatThan |-> greater_than(fin.data, fin.value),
                lessThan |-> less_than(fin.data, fin.value)]
    /\ UNCHANGED <<environment_vars, pc, fin>>
    /\ UNCHANGED runnerVars

NextPred == ApplyPredicates

SpecPred == InitPred /\ [][NextPred]_vars

\* an operand with the text of a number read as that number
Normalized(v) ==
    IF v.t = "str" /\ float_of_text(v.s).err = "" THEN PNum(float_of_text(v.s).f) ELSE v

\* C14: equal(a, b) is true exactly when a and b are equal once a text that
\* holds a number is taken for that number, so equal(5, "5") is true.
C14_EqualNormalizes ==
    (pc = "pred" /\ fout.n = 1) =>
        fout.equal = py_eq(Normalized(fin.data), Normalized(fin.value))

\* the string form of an operand, null for None
StringForm(v) == IF v = None THEN NullText ELSE py_str(v)

\* C15: contains(x, y) is true exactly when the string form of y occurs in
\* the string form of x, where None has the string form null.
C15_ContainsStringForm ==
    (pc = "pred" /\ fout.n = 1) =>
        fout.contains = IsSubstring(StringForm(fin.value), StringForm(fin.data))

\* C16: greatThan and lessThan never raise; they are false when float()
\* rejects an operand, and a > b and a < b of the two numbers otherwise, so
\* never both true.
C16_ComparisonsNeverRaise ==
    (pc = "pred" /\ fout.n = 1) =>
        /\ fout.greatThan.exc = ""
        /\ fout.lessThan.exc = ""
        /\ IF float_of(fin.data).err # "" \/ float_of(fin.value).err # ""
           THEN ~fout.greatThan.v /\ ~fout.lessThan.v
           ELSE /\ fout.greatThan.v = (float_of(fin.data).f > float_of(fin.value).f)
                /\ fout.lessThan.v = (float_of(fin.data).f < float_of(fin.value).f)
        /\ ~(fout.greatThan.v /\ fout.lessThan.v)

(***************************************************************************)
(* Validator.evaluate_condition exercised on its own                       *)
(***************************************************************************)
\* {"n": 10**309, "t": "it's"}
BodyHuge == PDict(<< <<<<"n">>, PHuge>>, <<<<"t">>, PStr(<<"i","t","'","s">>)>> >>)

CondResults == ActResults \cup {ResultOf(200, BodyHuge)}

CondEnvs == {<<>>, (<<"t">> :> <<"x","1">>), (<<"t">> :> <<"o">>)}

\* the paths of the references
CondPaths ==
    {<<"b","o","d","y",".","t">>,
     <<"b","o","d","y",".","a">>,
     <<"b","o","d","y",".","a","[","0","]">>,
     <<"b","o","d","y",".","a","[","5","]">>,
     <<"b","o","d","y",".","a","[","0","]",".","k">>,
     <<"b","o","d","y",".","z","z">>,
     <<"b","o","d","y",".","n">>,
     <<"c","o","d","e">>}

\* the second arguments: literals, and a variable bare and quoted
CondLiterals ==
    {<<"n","u","l","l">>,
     <<"\"","x","1","\"">>,
     <<"'","x","'">>,
     <<"1">>,
     <<"5">>,
     <<"2","0","0">>,
     <<"f","a","l","s","e">>,
     <<"$","t">>,
     <<"\"","$","t","\"">>}

\* fn(result.<path>, <literal>)
PredCall(fn, path, lit) ==
    fn \o <<"(">> \o ResultDot \o path \o <<",", " ">> \o lit \o <<")">>

PredCalls == {PredCall(fn, path, lit) : fn \in ContextFunctions, path \in CondPaths,
                                        lit \in CondLiterals}

\* the calls that the combinators are applied to
CombinedCalls ==
    {PredCall(<<"e","q","u","a","l">>, <<"b","o","d","y",".","t">>, <<"\"","x","1","\"">>),
     PredCall(<<"l","e","s","s","T","h","a","n">>, <<"c","o","d","e">>, <<"5">>),
     PredCall(<<"g","r","e","a","t","T","h","a","n">>, <<"b","o","d","y",".","n">>, <<"1">>),
     <<"f","o","o","(","1",")">>}

Combinations ==
    {<<"n","o","t"," ">> \o a : a \in CombinedCalls}
    \cup {a \o <<" ","a","n","d"," ">> \o b : a \in CombinedCalls, b \in CombinedCalls}
    \cup {a \o <<" ","o","r"," ">> \o b : a \in CombinedCalls, b \in CombinedCalls}
    \cup {<<"n","o","t"," ","(">> \o a \o <<" ","o","r"," ">> \o b \o <<")">> :
              a \in CombinedCalls, b \in CombinedCalls}

\* texts that are no expression, or whose evaluation raises
MalformedTexts ==
    {<<"e","q","u","a","l","(">>,
     <<"e","q","u","a","l","(","r","e","s","u","l","t",".","b","o","d","y",".","t">>,
     <<"e","q","u","a","l","(","1",",">>,
     <<"f","o","o","(","1",")">>,
     <<"c","o","n","t","a","i","n","s","(","1",")">>,
     <<"l","e","n","(","\"","a","\"",")">>,
     <<"1","(","2",")">>,
     <<"n","u","l","l",".","u","p","p","e","r","(",")">>,
     <<"$","t">>,
     <<"e","q","u","a","l","(","r","e","s","u","l","t",".","c","o","d","e",".",","," ","2","0","0",")">>,
     <<"n","o","t">>,
     <<"e","q","u","a","l","(","1",","," ","1",")"," ","5">>}

\* expressions of Python that are no calls of the four functions
OtherTexts ==
    {<<"1"," ","=","="," ","1">>,
     <<"\"","x","\"",".","u","p","p","e","r","(",")"," ","=","="," ","\"","X","\"">>,
     <<"1">>,
     <<"c","o","n","t","a","i","n","s">>,
     <<"r","e","s","u","l","t",".","c","o","d","e"," ","=","="," ","2","0","0">>,
     <<"[","1","]">>,
     <<"\"","a","\"">>,
     <<"r","e","s","u","l","t",".","b","o","d","y",".","t">>,
     <<"t","r","u","e">>,
     <<"n","o","t"," ","1"," ","=","="," ","2">>,
     <<"n","u","l","l"," ","o","r"," ","5">>,
     <<"e","q","u","a","l","(","1",","," ","1",")"," ","a","n","d"," ","\"","x","\"",".","u","p","p","e","r","(",")">>}

CondTexts == PredCalls \cup Combinations \cup MalformedTexts \cup OtherTexts

InitCond ==
    /\ RunnerIdle
    /\ pc = "cond"
    /\ environment_vars \in CondEnvs
    /\ fin \in [condition : CondTexts, result : CondResults]
    /\ fout = [n |-> 0]

\* self.evaluate_condition(expected_body, api_result_data, verbose)
EvaluateCondition ==
    /\ pc = "cond"
    /\ fout.n = 0
    /\ fout' = [n |-> 1,
                value |-> evaluate_condition(Txt(fin.condition), fin.result, environment_vars),
                outcome |-> eval_outcome(fin.condition, fin.result, environment_vars)]
    /\ UNCHANGED <<environment_vars, cycle_results, results, workbook, cycles, pc, sheet_idx,
                   cycle, row_idx, setup_success, sheet_has_failures, console, faults, log,
                   last, fin>>

NextCond == EvaluateCondition

SpecCond == InitCond /\ [][NextCond]_vars

\* every text of CondTexts is within the part of Python that eval is
\* modelled for
CondTextsSupported ==
    (pc = "cond" /\ fout.n = 1) => fout.outcome.exc # Unsupported

\* equal(result.<path>, null)
EqualNullText(path) == PredCall(<<"e","q","u","a","l">>, path, <<"n","u","l","l">>)

\* C12: when the path of the reference in equal(result.<path>, null) does
\* not resolve against the result, the reference stands for None: the
\* evaluation raises nothing and the condition is true.
C12_UnresolvedIsNull ==
    (pc = "cond" /\ fout.n = 1) =>
        \A path \in CondPaths :
            (fin.condition = EqualNullText(path)
             /\ _get_nested_value(fin.result, path) = None) =>
                /\ fout.outcome = Ok(PBool(TRUE))
                /\ fout.value = TRUE

\* equal(result.body.a[5], null) against {"t": null, "a": [false]}: the index
\* is past the end of the list, and the condition is true
C12_Witness ==
    /\ pc = "cond"
    /\ fout.n = 1
    /\ fin.condition = EqualNullText(<<"b","o","d","y",".","a","[","5","]">>)
    /\ fin.result = ResultOf(200, BodyNull)
    /\ fout.value = TRUE

\* the expression that eval is given
EvalText == re_sub_result(replace_env_vars(fin.condition, environment_vars), 1, fin.result)

\* an argument of the condition grammar: a literal, or what a reference was
\* replaced by (a literal, or the JSON text of a list or an object)
RECURSIVE GrammarArg(_)
GrammarArg(node) ==
    CASE node.k = "const" -> TRUE
      [] node.k = "name"  -> node.s \in {<<"t","r","u","e">>, <<"f","a","l","s","e">>,
                                         <<"n","u","l","l">>}
      [] node.k = "list"  -> \A i \in 1..Len(node.e) : GrammarArg(node.e[i])
      [] node.k = "dict"  -> \A i \in 1..Len(node.kv) :
                                GrammarArg(node.kv[i][1]) /\ GrammarArg(node.kv[i][2])
      [] OTHER            -> FALSE

\* an expression of the condition grammar: calls of the four predicates
\* joined by and, or, not
RECURSIVE GrammarExpr(_)
GrammarExpr(node) ==
    CASE node.k = "call" ->
            /\ node.f.k = "name" /\ node.f.s \in ContextFunctions
            /\ Len(node.args) = 2
            /\ \A i \in 1..Len(node.args) : GrammarArg(node.args[i])
      [] node.k = "not" -> GrammarExpr(node.a)
      [] node.k \in {"and", "or"} -> GrammarExpr(node.l) /\ GrammarExpr(node.r)
      [] OTHER -> FALSE

InGrammar(text) ==
    LET r == parse_expression(text)
    IN  r.err = "" /\ GrammarExpr(r.node)

\* C17: a condition whose text is not in the grammar of the four predicates
\* and the combinators and, or, not is rejected: its evaluation is false.
C17_OnlyGrammarIsEvaluated ==
    (pc = "cond" /\ fout.n = 1 /\ ~InGrammar(EvalText)) => fout.value = FALSE

(***************************************************************************)
(* Properties of the run: exceptions, skipped rows and validation          *)
(***************************************************************************)
\* the request of call e was made and execute_request raised an exception of
\* requests.exceptions (a timeout or another RequestException)
TransportFailure(e) == e.sent /\ e.outcome.k = "requests_error"

\* another exception was raised while call e ran: by execute_request, or by
\* validate_response after the response had come back
OtherException(e) ==
    /\ e.sent
    /\ \/ e.outcome.k = "other_error"
       \/ /\ e.outcome.k = "response"
          /\ validate_response(e.test_case, e.outcome, e.env0).raised

\* when the run is over, the rows after call i of a test sheet have run in
\* the same cycle
RowsAfterHaveRun(i) ==
    (log[i].sheet >= 2 /\ pc \in {"summary", "done"}) =>
        \A r \in (log[i].row + 1)..Len(TestRows(workbook[log[i].sheet])) :
            \E j \in (i + 1)..Len(log) :
                /\ log[j].sheet = log[i].sheet
                /\ log[j].cycle = log[i].cycle
                /\ log[j].row = r

\* the last entry of the details of the result of the latest call
LastDetail == last.result.details[Len(last.result.details)]

\* C21: a call whose request failed in transport (timeout or connection
\* error) ends Failed with the request error as the last detail; a call in
\* which any other exception was raised ends Error with the unexpected error
\* (exception and trace) as the last detail; either way the rows after it in
\* its test sheet have run in the same cycle when the run is over.  The
\* status of a call with another exception is stated for the latest call of
\* the log, which every call is in the state it leads to.
C21_ExceptionsClassified ==
    /\ \A i \in 1..Len(log) :
          /\ TransportFailure(log[i]) => log[i].status = "Failed" /\ RowsAfterHaveRun(i)
          /\ log[i].status = "Error" => RowsAfterHaveRun(i)
    /\ (Len(log) > 0 /\ TransportFailure(log[Len(log)])) =>
          LastDetail = [d |-> "RequestError"]
    /\ (Len(log) > 0 /\ OtherException(log[Len(log)])) =>
          /\ last.result.status = "Error"
          /\ LastDetail = [d |-> "UnexpectedError"]

\* the run is over: the first row of a test sheet met a transport failure
\* in one run, the validator raised on it in another (a date as expected
\* code), and the second row ran after each
C21_Witness ==
    /\ pc = "done"
    /\ \E i \in 1..Len(log) :
          /\ log[i].sheet >= 2 /\ log[i].row = 1
          /\ TransportFailure(log[i]) /\ log[i].status = "Failed"
          /\ \E j \in (i + 1)..Len(log) :
                log[j].sheet = log[i].sheet /\ log[j].cycle = log[i].cycle /\ log[j].row = 2
    /\ \E i \in 1..Len(log) :
          /\ log[i].sheet >= 2
          /\ log[i].outcome.k = "response"
          /\ OtherException(log[i]) /\ log[i].status = "Error"
          /\ \E j \in (i + 1)..Len(log) :
                log[j].sheet = log[i].sheet /\ log[j].cycle = log[i].cycle
                /\ log[j].row = log[i].row + 1

\* the api_path cell of the row is empty or holds nothing but white space
BlankPath(test_case) ==
    \/ test_case.api_path.k = "nan"
    \/ /\ test_case.api_path.k = "str"
       /\ \A k \in 1..Len(test_case.api_path.s) : Space(test_case.api_path.s[k])

\* C22: a call for a row whose api_path is missing or blank ends Skipped and
\* nothing of the row is executed: no request is sent, the result keeps the
\* code and the validations it was created with (no assertion evaluated), and
\* the Environment Store is the one before the call (no action applied).
C22_BlankPathIsSkipped ==
    /\ \A i \in 1..Len(log) :
          BlankPath(log[i].test_case) =>
              /\ log[i].status = "Skipped"
              /\ ~log[i].sent
              /\ log[i].url = <<>>
              /\ i < Len(log) => log[i + 1].env0 = log[i].env0
    /\ (Len(log) > 0 /\ BlankPath(log[Len(log)].test_case)) =>
          /\ environment_vars = last.env0
          /\ last.result.actual_code = NA
          /\ last.result.elapsed_time_ms = NA
          /\ last.result.body_validation = "N/A"
          /\ last.result.header_validation = "N/A"
          /\ last.result.details = <<[d |-> "ApiPathMissing"]>>

\* a row with a blank api_path that declares an expected code, a body
\* condition and an action has been skipped, after a call whose action had
\* bound t and before another call
C22_Witness ==
    /\ \E i \in 1..Len(log) :
          /\ log[i].test_case = RSkip
          /\ log[i].status = "Skipped"
          /\ notna(log[i].test_case.action)
          /\ notna(log[i].test_case.expect_response_body)
          /\ \E j \in 1..(i - 1) : ActionDue(log[j])
          /\ i < Len(log)

\* call e got a response and its row declares an expected code, a number,
\* that is not the code of the response
CodeMismatch(e) ==
    /\ e.sent
    /\ e.outcome.k = "response"
    /\ notna(e.test_case.expect_response_code)
    /\ int_of_cell(e.test_case.expect_response_code).k = "int"
    /\ int_of_cell(e.test_case.expect_response_code).n # e.outcome.code

\* C23: a call whose row declares an expected status code that differs from
\* the code of the response ends Failed, and the details of its result hold
\* the expected and the actual code.
C23_CodeMismatchFails ==
    /\ \A i \in 1..Len(log) : CodeMismatch(log[i]) => log[i].status = "Failed"
    /\ (Len(log) > 0 /\ CodeMismatch(log[Len(log)])) =>
          \E k \in 1..Len(last.result.details) :
              last.result.details[k] =
                  [d |-> "StatusCodeFailed",
                   expected |-> int_of_cell(log[Len(log)].test_case.expect_response_code).n,
                   actual |-> log[Len(log)].outcome.code]

\* a row that expects 200 and declares no other check got 404 and ended
\* Failed with both codes in the details
C23_Witness ==
    /\ Len(log) > 0
    /\ log[Len(log)].test_case = RLogin
    /\ log[Len(log)].outcome.k = "response"
    /\ log[Len(log)].outcome.code = 404
    /\ last.result.status = "Failed"
    /\ last.result.details = <<[d |-> "StatusCodeFailed", expected |-> 200, actual |-> 404]>>

\* texts of a map cell that are no JSON, with quotes of either kind, and
\* hold no {...} group with a "," or a ":" in it
MalformedMaps == {MalformedQuery, MalformedHeader, <<"x">>}

\* texts of a body cell that are no JSON
MalformedBodies == {MalformedBody, <<"{","'","k","'",":"," ","1","}">>}

\* the cell holds one of these texts
HoldsOneOf(cell, texts) == cell.k = "str" /\ cell.s \in texts

\* the row of call e has a path and a malformed query_param, inject_header or body
MalformedRequest(e) ==
    /\ ~BlankPath(e.test_case)
    /\ \/ HoldsOneOf(e.test_case.query_param, MalformedMaps)
       \/ HoldsOneOf(e.test_case.inject_header, MalformedMaps)
       \/ HoldsOneOf(e.test_case.body, MalformedBodies)

\* C24: a call for a row whose header, query-parameter or body text is
\* malformed is executed all the same: execute_request is called, with an
\* empty map for malformed headers or parameters and no body for a malformed
\* body, and when the response comes the result is the one of its
\* validation, Passed or Failed.
C24_MalformedLiteralsDoNotAbort ==
    \A i \in 1..Len(log) :
        MalformedRequest(log[i]) =>
            /\ log[i].sent
            /\ log[i].request.k = "request"
            /\ HoldsOneOf(log[i].test_case.query_param, MalformedMaps) =>
                  log[i].request.query_params = PDict(<<>>)
            /\ HoldsOneOf(log[i].test_case.inject_header, MalformedMaps) =>
                  log[i].request.headers = PDict(<<>>)
            /\ HoldsOneOf(log[i].test_case.body, MalformedBodies) =>
                  log[i].request.body = None
            /\ (log[i].outcome.k = "response" /\ ~OtherException(log[i])) =>
                  log[i].status =
                      (IF validate_response(log[i].test_case, log[i].outcome,
                                            log[i].env0).test_passed_validations
                       THEN "Passed" ELSE "Failed")

\* the row with the three malformed cells got 200, which it expects, and
\* passed in one cycle, and got 404 and failed in another
C24_Witness ==
    /\ \E i \in 1..Len(log) :
          /\ log[i].test_case = RMalformed
          /\ log[i].request = [k |-> "request", query_params |-> PDict(<<>>),
                               headers |-> PDict(<<>>), body |-> None]
          /\ log[i].outcome.k = "response" /\ log[i].outcome.code = 200
          /\ log[i].status = "Passed"
    /\ \E i \in 1..Len(log) :
          /\ log[i].test_case = RMalformed
          /\ log[i].outcome.k = "response" /\ log[i].outcome.code = 404
          /\ log[i].status = "Failed"

(***************************************************************************)
(* The request parser exercised on its own                                 *)
(***************************************************************************)
\* cell texts: JSON with quotes of either kind, texts that only the fallback
\* reads, and texts that nothing reads
ParseTexts ==
    {<<"[","{","\"","h","\"",":"," ","\"","$","a","\"","}","]">>,
     <<"{","'","h","'",":"," ","'","$","a","'","}">>,
     <<"[","{","'","h","'",","," ","'","$","a","'","}","]">>,
     <<"{","h",":","$","a","}">>,
     <<"{","\"","h","\"",":"," ","\"","$","a","\"">>,
     <<"x">>,
     <<"{","\"","k","\"",":"," ","1","}">>,
     <<"{","'","k","'",":"," ","1","}">>,
     <<"$","a">>,
     <<"[","{","\"","a","\"",":"," ","\"","1","\"","}",","," ","{","\"","b","\"",":"," ","n","u","l","l",","," ","\"","a","\"",":"," ","\"","2","\"","}","]">>,
     MalformedQuery, MalformedHeader, MalformedBody}

\* a is bound to a text that holds a reference to b
ParseEnvs ==
    {<<>>,
     (<<"a">> :> <<"$","b">>) @@ (<<"b">> :> <<"v">>),
     (<<"a">> :> <<"w">>),
     (<<"a">> :> <<"{","\"","k","\"",":"," ","\"","$","b","\"","}">>) @@ (<<"b">> :> <<"1">>)}

InitParse ==
    /\ RunnerIdle
    /\ pc = "parse"
    /\ environment_vars \in ParseEnvs
    /\ fin \in [text : ParseTexts]
    /\ fout = [n |-> 0]

\* self.parser.parse_dict_list(test_case.get('query_param', None))
ParseQuery ==
    /\ pc = "parse"
    /\ fout.n = 0
    /\ fout' = [n |-> 1, op |-> "query_param",
                value |-> parse_dict_list(Txt(fin.text), environment_vars)]
    /\ UNCHANGED <<environment_vars, cycle_results, results, workbook, cycles, pc, sheet_idx,
                   cycle, row_idx, setup_success, sheet_has_failures, console, faults, log,
                   last, fin>>

\* self.parser.parse_headers(test_case.get('inject_header', None))
ParseHeaders ==
    /\ pc = "parse"
    /\ fout.n = 0
    /\ fout' = [n |-> 1, op |-> "inject_header",
                value |-> parse_headers(Txt(fin.text), environment_vars)]
    /\ UNCHANGED <<environment_vars, cycle_results, results, workbook, cycles, pc, sheet_idx,
                   cycle, row_idx, setup_success, sheet_has_failures, console, faults, log,
                   last, fin>>

\* self.parser.parse_json_body(test_case.get('body', None))
ParseBody ==
    /\ pc = "parse"
    /\ fout.n = 0
    /\ fout' = [n |-> 1, op |-> "body",
                value |-> parse_json_body(Txt(fin.text), environment_vars)]
    /\ UNCHANGED <<environment_vars, cycle_results, results, workbook, cycles, pc, sheet_idx,
                   cycle, row_idx, setup_success, sheet_has_failures, console, faults, log,
                   last, fin>>

NextParse ==
    \/ ParseQuery
    \/ ParseHeaders
    \/ ParseBody

SpecParse == InitParse /\ [][NextParse]_vars

\* C27: the headers that parse_headers gives are those of the header text
\* after one substitution pass: a reference that a substituted value holds
\* (a bound to $b, b bound too) stays in the header value as it is.
C27_HeaderSubstitutedOnce ==
    (pc = "parse" /\ fout.n = 1 /\ fout.op = "inject_header") =>
        fout.value = dict_literal(replace_env_vars(fin.text, environment_vars))

(***************************************************************************)
(* Properties of the aggregated record: statistics and rates               *)
(***************************************************************************)
\* the elapsed times of the runs that are numbers
NumericSamples(runs) ==
    SelectSeq([i \in 1..Len(runs) |-> runs[i].elapsed], LAMBDA c : c.k \in {"int", "float"})

\* x is one of the samples and no sample is below it
IsMinOf(x, samples) ==
    /\ \E i \in 1..Len(samples) : samples[i] = x
    /\ \A i \in 1..Len(samples) : num_le(x, samples[i])

\* x is one of the samples and no sample is above it
IsMaxOf(x, samples) ==
    /\ \E i \in 1..Len(samples) : samples[i] = x
    /\ \A i \in 1..Len(samples) : num_le(samples[i], x)

\* x is a number from lo to hi
Between(lo, x, hi) ==
    /\ x.k \in {"int", "float"}
    /\ num_le(lo, x)
    /\ num_le(x, hi)

\* C25: with one numeric elapsed sample or more, the aggregated minimum and
\* maximum are the smallest and the largest sample, the mean and the median
\* lie from the minimum to the maximum, and the standard deviation is 0 for
\* exactly one sample; without a numeric sample the five statistics are
\* absent.
C25_TimeStatistics ==
    (pc = "agg" /\ fout.n = 1) =>
        LET r == fout.results[fout.key]
            samples == NumericSamples(fin.runs)
        IN  IF samples = <<>>
            THEN /\ r.min_time_ms = NA /\ r.max_time_ms = NA /\ r.avg_time_ms = NA
                 /\ r.median_time_ms = NA /\ r.std_dev_ms = NA
            ELSE /\ IsMinOf(r.min_time_ms, samples)
                 /\ IsMaxOf(r.max_time_ms, samples)
                 /\ Between(r.min_time_ms, r.median_time_ms, r.max_time_ms)
                 /\ Between(r.min_time_ms, r.avg_time_ms, r.max_time_ms)
                 /\ Len(samples) = 1 => r.std_dev_ms = IntCell(0)

\* the number of runs with this status
RunsWith(runs, status) == Cardinality({i \in 1..Len(runs) : runs[i].status = status})

\* count out of total as a percentage with one decimal: the tenths of a
\* percent are 1000 * count / total rounded to the nearest integer
PercentText(count, total) ==
    LET tenths == (2000 * count + total) \div (2 * total)
    IN  IntToText(tenths \div 10) \o <<".">> \o IntToText(tenths % 10) \o <<"%">>

\* C26: the success rate is passed / (passed + failed + error) and the
\* failure rate (failed + error) / (passed + failed + error), as percentages;
\* both are N/A exactly when passed + failed + error is 0; the Skipped runs
\* are not in the denominator.
C26_RatesOverAttempts ==
    (pc = "agg" /\ fout.n = 1) =>
        LET r == fout.results[fout.key]
            passed == RunsWith(fin.runs, "Passed")
            failed == RunsWith(fin.runs, "Failed") + RunsWith(fin.runs, "Error")
        IN  /\ (r.success_rate = NAText) <=> (passed + failed = 0)
            /\ (r.failure_rate = NAText) <=> (passed + failed = 0)
            /\ passed + failed > 0 =>
                  /\ r.success_rate = PercentText(passed, passed + failed)
                  /\ r.failure_rate = PercentText(failed, passed + failed)

\* a Passed, a Skipped and an Error run: both rates are 50.0%
C26_Witness ==
    /\ pc = "agg"
    /\ fout.n = 1
    /\ Len(fin.runs) = 3
    /\ fin.runs[1].status = "Passed"
    /\ fin.runs[2].status = "Skipped"
    /\ fin.runs[3].status = "Error"
    /\ fout.results[fout.key].success_rate = <<"5","0",".","0","%">>
    /\ fout.results[fout.key].failure_rate = <<"5","0",".","0","%">>

(***************************************************************************)
(* Properties of the run: the verdict of the validation                    *)
(***************************************************************************)
\* call e got a response
ResponseReceived(e) == e.sent /\ e.outcome.k = "response"

\* call e got a response and validate_response returned
Validated(e) ==
    /\ ResponseReceived(e)
    /\ ~validate_response(e.test_case, e.outcome, e.env0).raised

\* the condition of this cell is declared and is not true of the response of call e
ConditionFailed(e, cell) ==
    notna(cell) /\ ~evaluate_condition(cell, api_result_data(e.outcome), e.env0)

\* one of the declared checks of call e failed
SomeCheckFailed(e) ==
    \/ CodeMismatch(e)
    \/ ConditionFailed(e, e.test_case.expect_response_body)
    \/ ConditionFailed(e, e.test_case.expect_response_header)

\* the validation field for this cell: N/A when it is not declared
ValidationText(e, cell) ==
    IF ~notna(cell) THEN "N/A"
    ELSE IF ConditionFailed(e, cell) THEN "Failed"
    ELSE "Passed"

\* the verdict of the latest call is the one of its declared checks
VerdictOfLatest ==
    /\ last.result.status =
          (IF SomeCheckFailed(log[Len(log)]) THEN "Failed" ELSE "Passed")
    /\ last.result.body_validation =
          ValidationText(log[Len(log)], log[Len(log)].test_case.expect_response_body)
    /\ last.result.header_validation =
          ValidationText(log[Len(log)], log[Len(log)].test_case.expect_response_header)

\* C28: a call that got a response ends Passed when none of its declared
\* checks failed (the code is the expected one, the body condition is true,
\* the header condition is true) and Failed otherwise; body_validation and
\* header_validation are N/A exactly when the row declares no such
\* condition, and Passed or Failed as the condition went.  Stated for the
\* latest call of the log, which every call is in the state it leads to.
C28_VerdictOfDeclaredChecks ==
    (Len(log) > 0 /\ ResponseReceived(log[Len(log)])) => VerdictOfLatest

\* the same for the calls in which validate_response returned
VerdictWhenValidated ==
    (Len(log) > 0 /\ Validated(log[Len(log)])) => VerdictOfLatest

(***************************************************************************)
(* Properties of the run: the message that a sheet has passed              *)
(***************************************************************************)
\* the per-run results of the test sheet of this name, in all its cycles
RunsOfSheet(name) ==
    {i \in 1..Len(log) : log[i].sheet > 1 /\ workbook[log[i].sheet].name = name}

UnconvertibleCode(e) ==
    /\ ResponseReceived(e)
    /\ notna(e.test_case.expect_response_code)
    /\ int_of_cell(e.test_case.expect_response_code).k # "int"

\* the details of the latest result that are of this kind
DetailsOfKind(d) == SelectSeq(last.result.details, LAMBDA x : x.d = d)

\* C30: when the expected code of a row cannot be converted to an integer,
\* no exception leaves validate_response, the codes are not compared, the
\* details hold a note about the value, and the call ends Passed when the
\* body and header conditions it declares are true.  Stated for the latest
\* call of the log, which every call is in the state it leads to.
C30_UnconvertibleCodeIsNoFailure ==
    (Len(log) > 0 /\ UnconvertibleCode(log[Len(log)])) =>
        /\ ~validate_response(log[Len(log)].test_case, log[Len(log)].outcome,
                              log[Len(log)].env0).raised
        /\ DetailsOfKind("StatusCodeFailed") = <<>>
        /\ DetailsOfKind("InvalidExpectCode") =
              <<[d |-> "InvalidExpectCode",
                 value |-> log[Len(log)].test_case.expect_response_code]>>
        /\ (~SomeCheckFailed(log[Len(log)])) => last.result.status = "Passed"

====
